---- MODULE Spec2Model ----
(***************************************************************************)
(* autodi: the dependency graph of a compile-time DI generator.            *)
(*                                                                         *)
(* The model follows graph.go (BuildGraph, resolveBindings,                *)
(* autoDetectBindings, BindCommandInterfaces, VerifyAcyclic,               *)
(* TopologicalSortWithExtraEdges, ProvidersForTypes, EntryProviders,       *)
(* ValidateEntry, AutoCollect), the command validation of main, and the    *)
(* helpers of scanner.go they call (FieldName, exportName, RelPath).       *)
(* Type strings,                                                           *)
(* package paths and config names are strings, handled character by        *)
(* character as the Go code does.  A *Provider is the index of the         *)
(* provider in the Providers list; a Go map is a function whose DOMAIN is  *)
(* the key set, and ranging over a map is a choice of an order of its keys.*)
(***************************************************************************)
EXTENDS Integers, Sequences, FiniteSets, TLC

VARIABLES
    pc,             \* where main is: "scanned", "built" or "failed" (BuildGraph),
                    \* "verified" or "cyclic" (VerifyAcyclic), "bound" (BindCommandInterfaces),
                    \* "validated" or "invalid" (command validation); "resolved" inside
                    \* BuildGraph, at the return of resolveBindings
    Providers,      \* Graph.Providers ([]*Provider), the argument of BuildGraph
    cfg,            \* Graph.cfg (*Config): Module, Bindings, Groups
    pkgIndex,       \* Scanner.PkgIndex handed to BuildGraph
    ProviderMap,    \* Graph.ProviderMap: typeStr -> provider (index)
    Bindings,       \* Graph.Bindings: interface typeStr -> concrete typeStr
    Groups,         \* Graph.Groups: group name -> list of providers
    TypeToField,    \* Graph.TypeToField: typeStr -> field name
    shortToFull,    \* Graph.shortToFull
    pkgNameToPath,  \* Graph.pkgNameToPath
    errs,           \* the []error BuildGraph returned
    last            \* the last call made on the graph and what it returned

vars == <<pc, Providers, cfg, pkgIndex, ProviderMap, Bindings, Groups,
          TypeToField, shortToFull, pkgNameToPath, errs, last>>

-----------------------------------------------------------------------------
(* Bounds of the model.                                                    *)

\* longest targetTypes list handed to TopologicalSort / ProvidersForTypes
MaxTargets == 2
\* most parameters of one command constructor
MaxCmdParams == 1

-----------------------------------------------------------------------------
(* Go strings.                                                             *)

\* the byte at (1-based) position i, as a one-character string
Ch(s, i) == SubSeq(s, i, i)

\* the characters the model's strings are made of, in byte order
Alphabet == "*-./0123456789ABCDEFGHIJKLMNOPQRSTUVWXYZ[]_abcdefghijklmnopqrstuvwxyz"

\* the position of every character of the alphabet: its rank in byte order
OrdOf ==
    [c \in {Ch(Alphabet, i) : i \in 1..Len(Alphabet)} |->
        CHOOSE i \in 1..Len(Alphabet) : Ch(Alphabet, i) = c]

Ord(c) == OrdOf[c]

\* strings.ToUpper on one character
ToUpper(c) ==
    LET i == Ord(c)
        a == Ord("a")
    IN  IF i >= a /\ i <= Ord("z") THEN Ch(Alphabet, Ord("A") + (i - a)) ELSE c

\* strings.HasPrefix
HasPrefix(s, p) == Len(p) <= Len(s) /\ SubSeq(s, 1, Len(p)) = p

\* strings.HasSuffix
HasSuffix(s, p) == Len(p) <= Len(s) /\ SubSeq(s, Len(s) - Len(p) + 1, Len(s)) = p

\* strings.TrimPrefix
TrimPrefix(s, p) == IF HasPrefix(s, p) THEN SubSeq(s, Len(p) + 1, Len(s)) ELSE s

\* strings.Index for a one-character separator: 1-based position, 0 for Go's -1
Index(s, c) ==
    LET hits == {i \in 1..Len(s) : Ch(s, i) = c}
    IN  IF hits = {} THEN 0 ELSE CHOOSE i \in hits : \A j \in hits : i <= j

\* strings.LastIndex for a one-character separator: 1-based position, 0 for Go's -1
LastIndex(s, c) ==
    LET hits == {i \in 1..Len(s) : Ch(s, i) = c}
    IN  IF hits = {} THEN 0 ELSE CHOOSE i \in hits : \A j \in hits : i >= j

\* strings.Contains for a one-character substring
Contains(s, c) == Index(s, c) # 0

\* strings.Split for a one-character separator
RECURSIVE Split(_, _)
Split(s, c) ==
    LET i == Index(s, c)
    IN  IF i = 0 THEN <<s>>
        ELSE <<SubSeq(s, 1, i - 1)>> \o Split(SubSeq(s, i + 1, Len(s)), c)

\* strings.Join
RECURSIVE Join(_, _)
Join(parts, sep) ==
    IF Len(parts) = 0 THEN ""
    ELSE IF Len(parts) = 1 THEN parts[1]
    ELSE parts[1] \o sep \o Join(Tail(parts), sep)

\* strings.EqualFold (ASCII)
EqualFold(a, b) ==
    Len(a) = Len(b) /\ \A i \in 1..Len(a) : ToUpper(Ch(a, i)) = ToUpper(Ch(b, i))

\* a < b in Go's string order (byte-wise lexicographic), as sort.Strings uses
RECURSIVE StrLess(_, _)
StrLess(a, b) ==
    IF Len(b) = 0 THEN FALSE
    ELSE IF Len(a) = 0 THEN TRUE
    ELSE IF Head(a) = Head(b) THEN StrLess(Tail(a), Tail(b))
    ELSE Ord(Head(a)) < Ord(Head(b))

\* sort.Strings applied to the keys collected from a map: the set in ascending order
RECURSIVE SortStrings(_)
SortStrings(S) ==
    IF S = {} THEN <<>>
    ELSE LET m == CHOOSE x \in S : \A y \in S \ {x} : StrLess(x, y)
         IN  <<m>> \o SortStrings(S \ {m})

-----------------------------------------------------------------------------
(* Go maps and slices.                                                     *)

EmptyMap == [k \in {} |-> 0]

Has(m, k) == k \in DOMAIN m

Put(m, k, v) == [x \in (DOMAIN m) \cup {k} |-> IF x = k THEN v ELSE m[x]]

Range(s) == {s[i] : i \in 1..Len(s)}

\* the orders in which `range` may deliver the keys of a map
Orders(S) == {o \in [1..Cardinality(S) -> S] : \A i, j \in 1..Cardinality(S) : i # j => o[i] # o[j]}

-----------------------------------------------------------------------------
(* Names: scanner.go FieldName / exportName, graph.go toShortTypeName.     *)

\* exportName ensures the first letter is uppercase
exportName(s) == IF s = "" THEN s ELSE ToUpper(Ch(s, 1)) \o SubSeq(s, 2, Len(s))

\* a path segment such as v2, v9: 'v' followed by a digit
isVersionSegment(seg) ==
    /\ Len(seg) >= 2
    /\ Ch(seg, 1) = "v"
    /\ Ord(Ch(seg, 2)) >= Ord("0")
    /\ Ord(Ch(seg, 2)) <= Ord("9")

\* the part of a path segment after its last '-' (the whole segment without one)
afterDash(seg) ==
    LET idx == LastIndex(seg, "-")
    IN  IF idx > 0 THEN SubSeq(seg, idx + 1, Len(seg)) ELSE seg

\* FieldName generates the Container field name of a type string
FieldName(typeStr) ==
    LET s == TrimPrefix(typeStr, "*")
        dotIdx == LastIndex(s, ".")
        pkgPath == SubSeq(s, 1, dotIdx - 1)
        typeName == SubSeq(s, dotIdx + 1, Len(s))
        slash == LastIndex(pkgPath, "/")
        pkg0 == IF slash > 0 THEN SubSeq(pkgPath, slash + 1, Len(pkgPath)) ELSE pkgPath
        parts == Split(pkgPath, "/")
        pkg == IF isVersionSegment(pkg0) /\ Len(parts) >= 2
               THEN afterDash(parts[Len(parts) - 1])
               ELSE pkg0
    IN  IF dotIdx = 0 THEN exportName(s)
        ELSE IF EqualFold(pkg, typeName) THEN exportName(typeName)
        ELSE IF Len(typeName) > Len(pkg) /\ EqualFold(SubSeq(typeName, 1, Len(pkg)), pkg)
             THEN exportName(typeName)
        ELSE exportName(pkg) \o exportName(typeName)

\* toShortTypeName converts a full type string to its short form
toShortTypeName(typeStr) ==
    LET ptr == HasPrefix(typeStr, "*")
        prefix == IF ptr THEN "*" ELSE ""
        s == IF ptr THEN SubSeq(typeStr, 2, Len(typeStr)) ELSE typeStr
        dotIdx == LastIndex(s, ".")
        pkgPath == SubSeq(s, 1, dotIdx - 1)
        typeName == SubSeq(s, dotIdx + 1, Len(s))
        parts == Split(pkgPath, "/")
        pkg0 == parts[Len(parts)]
        pkgName == IF isVersionSegment(pkg0) /\ Len(parts) >= 2
                   THEN afterDash(parts[Len(parts) - 1])
                   ELSE pkg0
    IN  IF dotIdx = 0 THEN typeStr ELSE prefix \o pkgName \o "." \o typeName

-----------------------------------------------------------------------------
(* The typed packages the scanner loaded (go/types).  Package m/a declares *)
(* interface I { M() } and struct A with method M on *A; package m/b       *)
(* declares interface J { M(); N() } and struct B with M and N on *B;      *)
(* package m/c declares structs C and D without methods and struct V with  *)
(* method M on *V, and interface K { M(); N(); P() }.                      *)

Module == "m"

InterfaceTypes == {"m/a.I", "m/b.J", "m/c.K"}

\* types.Implements(V, T) for the types of the loaded packages
Implements(v, t) ==
    <<v, t>> \in { <<"*m/a.A", "m/a.I">>,
                   <<"*m/b.B", "m/a.I">>, <<"*m/b.B", "m/b.J">>,
                   <<"m/a.I", "m/a.I">>,
                   <<"m/b.J", "m/a.I">>, <<"m/b.J", "m/b.J">>,
                   <<"*m/c.V", "m/a.I">>,
                   <<"m/c.K", "m/a.I">>, <<"m/c.K", "m/b.J">>, <<"m/c.K", "m/c.K">> }

\* t.Underlying().(*types.Interface) succeeds
underlyingIsInterface(t) == t \in InterfaceTypes

\* isInterface: after one pointer dereference the underlying type is an interface
isInterface(t) == TrimPrefix(t, "*") \in InterfaceTypes

\* typePkgPath: the package of a named type or of a pointer to one, else ""
typePkgPath(t) ==
    LET s == TrimPrefix(t, "*")
        dotIdx == LastIndex(s, ".")
    IN  IF HasPrefix(s, "[") \/ dotIdx = 0 THEN "" ELSE SubSeq(s, 1, dotIdx - 1)

\* a TypeRef as extractParams / extractReturns build it
TypeRef(t, optional) ==
    [TypeStr |-> t, PkgPath |-> typePkgPath(t), IsIface |-> isInterface(t), Optional |-> optional]

\* HasAnnotation
HasAnnotation(annotations, kind) == \E i \in 1..Len(annotations) : annotations[i].Kind = kind

\* GetAnnotationValues: the non-empty values of one kind, in source order
RECURSIVE GetAnnotationValues(_, _)
GetAnnotationValues(annotations, kind) ==
    IF Len(annotations) = 0 THEN <<>>
    ELSE LET a == Head(annotations)
             rest == GetAnnotationValues(Tail(annotations), kind)
         IN  IF a.Kind = kind /\ a.Value # "" THEN <<a.Value>> \o rest ELSE rest

\* Provider.RelPath
RelPath(p, module) == TrimPrefix(p.PkgPath, module \o "/")

-----------------------------------------------------------------------------
(* BuildGraph.  The graph under construction is a record g with the fields *)
(* of the Go struct; the actions below store its fields in the variables.  *)

\* the Graph literal at the head of BuildGraph, pkgNameToPath seeded with pkgIndex
newGraph(providers, index) ==
    [Providers |-> providers, ProviderMap |-> EmptyMap, Bindings |-> EmptyMap,
     Groups |-> EmptyMap, TypeToField |-> EmptyMap, shortToFull |-> EmptyMap,
     pkgNameToPath |-> index]

\* buildTypeIndex, the body run for each return and each parameter
RECURSIVE indexRefs(_, _)
indexRefs(g, refs) ==
    IF Len(refs) = 0 THEN g
    ELSE LET r == Head(refs)
             short == toShortTypeName(r.TypeStr)
             parts == Split(r.PkgPath, "/")
             g1 == IF short # r.TypeStr
                   THEN [g EXCEPT !.shortToFull = Put(@, short, r.TypeStr)]
                   ELSE g
             g2 == IF r.PkgPath # ""
                   THEN [g1 EXCEPT !.pkgNameToPath = Put(@, parts[Len(parts)], r.PkgPath)]
                   ELSE g1
         IN  indexRefs(g2, Tail(refs))

\* buildTypeIndex builds the lookup maps from all discovered types (providers i..)
RECURSIVE buildTypeIndex(_, _)
buildTypeIndex(g, i) ==
    IF i > Len(g.Providers) THEN g
    ELSE LET p == g.Providers[i]
             g1 == [g EXCEPT !.pkgNameToPath = Put(@, p.PkgName, p.PkgPath)]
         IN  buildTypeIndex(indexRefs(indexRefs(g1, p.Returns), p.Params), i + 1)

\* a variant of phase 1 that takes a path for a match only when it is the whole
\* relative path of the package
RECURSIVE matchPathsWholePath(_, _, _)
matchPathsWholePath(rel, groupName, paths) ==
    IF Len(paths) = 0 THEN <<>>
    ELSE (IF rel = Head(paths) THEN <<groupName>> ELSE <<>>)
         \o matchPathsWholePath(rel, groupName, Tail(paths))

\* BuildGraph phase 1, inner loop: the group name once for every matching path
RECURSIVE matchPaths(_, _, _)
matchPaths(rel, groupName, paths) ==
    IF Len(paths) = 0 THEN <<>>
    ELSE (IF HasPrefix(rel, Head(paths)) THEN <<groupName>> ELSE <<>>)
         \o matchPaths(rel, groupName, Tail(paths))

\* BuildGraph phase 1 for one provider: `order` is the order in which
\* `range cfg.Groups` delivers the group names
RECURSIVE classify(_, _, _)
classify(rel, groups, order) ==
    IF Len(order) = 0 THEN <<>>
    ELSE matchPaths(rel, Head(order), groups[Head(order)].Paths)
         \o classify(rel, groups, Tail(order))

\* BuildGraph phase 1: orders[i] is the iteration order met for provider i
classifyProviders(g, c, orders) ==
    [g EXCEPT !.Providers =
        [i \in 1..Len(g.Providers) |->
            [g.Providers[i] EXCEPT
                !.Groups = @ \o classify(RelPath(g.Providers[i], c.Module), c.Groups, orders[i])]]]

\* the duplicate-provider error of phase 2
DuplicateProvider(typeStr, existing, p) ==
    [kind |-> "duplicate provider", typeStr |-> typeStr, existing |-> existing, provider |-> p]

\* BuildGraph phase 2, inner loop: st = [g, errs]; provider i, its returns from k on
RECURSIVE registerReturns(_, _, _)
registerReturns(st, i, k) ==
    LET p == st.g.Providers[i]
    IN  IF k > Len(p.Returns) THEN st
        ELSE LET typeStr == p.Returns[k].TypeStr
             IN  IF Len(p.Groups) > 0 THEN registerReturns(st, i, k + 1)
                 ELSE IF Has(st.g.ProviderMap, typeStr)
                 THEN registerReturns(
                        [st EXCEPT !.errs = Append(@, DuplicateProvider(typeStr, st.g.ProviderMap[typeStr], i))],
                        i, k + 1)
                 ELSE registerReturns(
                        [st EXCEPT !.g.ProviderMap = Put(@, typeStr, i),
                                   !.g.TypeToField = Put(@, typeStr, FieldName(typeStr))],
                        i, k + 1)

\* BuildGraph phase 2: register each provider's return types in the provider map
RECURSIVE registerProviders(_, _)
registerProviders(st, i) ==
    IF i > Len(st.g.Providers) THEN st
    ELSE IF st.g.Providers[i].IsInvoke THEN registerProviders(st, i + 1)
    ELSE registerProviders(registerReturns(st, i, 1), i + 1)

\* "Add grouped providers", inner loop over p.Groups
RECURSIVE addToGroups(_, _, _)
addToGroups(groups, i, names) ==
    IF Len(names) = 0 THEN groups
    ELSE LET n == Head(names)
             cur == IF Has(groups, n) THEN groups[n] ELSE <<>>
         IN  addToGroups(Put(groups, n, Append(cur, i)), i, Tail(names))

\* "Add grouped providers"
RECURSIVE addGroupedProviders(_, _)
addGroupedProviders(g, i) ==
    IF i > Len(g.Providers) THEN g
    ELSE addGroupedProviders(
            [g EXCEPT !.Groups = addToGroups(@, i, g.Providers[i].Groups)], i + 1)

-----------------------------------------------------------------------------
(* resolveConfigType and resolveBindings.                                  *)

\* resolveConfigType's heuristic, the loop over the segments of one group path:
\* the full package path inferred for pkgName, or "" when no segment equals it
RECURSIVE inferFromParts(_, _, _, _)
inferFromParts(module, parts, i, pkgName) ==
    IF i > Len(parts) THEN ""
    ELSE IF parts[i] = pkgName THEN module \o "/" \o Join(SubSeq(parts, 1, i), "/")
    ELSE inferFromParts(module, parts, i + 1, pkgName)

\* the loop over the paths of one group
RECURSIVE inferFromPaths(_, _, _)
inferFromPaths(module, paths, pkgName) ==
    IF Len(paths) = 0 THEN ""
    ELSE LET hit == inferFromParts(module, Split(Head(paths), "/"), 1, pkgName)
         IN  IF hit # "" THEN hit ELSE inferFromPaths(module, Tail(paths), pkgName)

\* the loop over cfg.Groups, met in the order `order`
RECURSIVE inferFromGroups(_, _, _)
inferFromGroups(c, order, pkgName) ==
    IF Len(order) = 0 THEN ""
    ELSE LET hit == inferFromPaths(c.Module, c.Groups[Head(order)].Paths, pkgName)
         IN  IF hit # "" THEN hit ELSE inferFromGroups(c, Tail(order), pkgName)

\* resolveConfigType resolves a short config type name to its full type string.
\* The result is [full, g]: the heuristic caches the inferred package in g.
resolveConfigType(g, c, shortName, order) ==
    LET ptr == HasPrefix(shortName, "*")
        prefix == IF ptr THEN "*" ELSE ""
        s == IF ptr THEN SubSeq(shortName, 2, Len(shortName)) ELSE shortName
        dotIdx == Index(s, ".")
        pkgName == SubSeq(s, 1, dotIdx - 1)
        typeName == SubSeq(s, dotIdx + 1, Len(s))
        fullPkg == inferFromGroups(c, order, pkgName)
    IN  IF Contains(shortName, "/") THEN [full |-> shortName, g |-> g]
        ELSE IF Has(g.shortToFull, shortName) THEN [full |-> g.shortToFull[shortName], g |-> g]
        ELSE IF dotIdx > 1 /\ Has(g.pkgNameToPath, pkgName)
        THEN [full |-> prefix \o g.pkgNameToPath[pkgName] \o "." \o typeName, g |-> g]
        ELSE IF dotIdx > 1 /\ fullPkg # ""
        THEN [full |-> prefix \o fullPkg \o "." \o typeName,
              g |-> [g EXCEPT !.pkgNameToPath = Put(@, pkgName, fullPkg)]]
        ELSE [full |-> shortName, g |-> g]

\* the duplicate-binding error of resolveBindings
DuplicateBinding(ifaceFull) == [kind |-> "duplicate binding", typeStr |-> ifaceFull]

\* a variant of step 1 that reports a duplicate binding and then records it all the same
RECURSIVE bindConfigIfacesLastWins(_, _, _, _, _)
bindConfigIfacesLastWins(st, c, concreteFull, ifaces, order) ==
    IF Len(ifaces) = 0 THEN st
    ELSE LET r == resolveConfigType(st.g, c, Head(ifaces), order)
             ifaceFull == r.full
             g1 == r.g
             g2 == [g1 EXCEPT !.Bindings = Put(@, ifaceFull, concreteFull)]
             g3 == IF Has(g2.ProviderMap, concreteFull)
                   THEN [g2 EXCEPT !.ProviderMap = Put(@, ifaceFull, g2.ProviderMap[concreteFull]),
                                   !.TypeToField = Put(@, ifaceFull, FieldName(ifaceFull))]
                   ELSE g2
             errs1 == IF Has(g1.Bindings, ifaceFull)
                      THEN Append(st.errs, DuplicateBinding(ifaceFull)) ELSE st.errs
         IN  bindConfigIfacesLastWins([g |-> g3, errs |-> errs1], c, concreteFull, Tail(ifaces), order)

\* resolveBindings step 1, inner loop: the interfaces listed for one concrete type
RECURSIVE bindConfigIfaces(_, _, _, _, _)
bindConfigIfaces(st, c, concreteFull, ifaces, order) ==
    IF Len(ifaces) = 0 THEN st
    ELSE LET r == resolveConfigType(st.g, c, Head(ifaces), order)
             ifaceFull == r.full
             g1 == r.g
             g2 == [g1 EXCEPT !.Bindings = Put(@, ifaceFull, concreteFull)]
             g3 == IF Has(g2.ProviderMap, concreteFull)
                   THEN [g2 EXCEPT !.ProviderMap = Put(@, ifaceFull, g2.ProviderMap[concreteFull]),
                                   !.TypeToField = Put(@, ifaceFull, FieldName(ifaceFull))]
                   ELSE g2
         IN  IF Has(g1.Bindings, ifaceFull)
             THEN bindConfigIfaces([g |-> g1, errs |-> Append(st.errs, DuplicateBinding(ifaceFull))],
                                   c, concreteFull, Tail(ifaces), order)
             ELSE bindConfigIfaces([g |-> g3, errs |-> st.errs],
                                   c, concreteFull, Tail(ifaces), order)

\* resolveBindings step 1: explicit bindings from config; `border` is the order in
\* which `range cfg.Bindings` delivers the concrete names
RECURSIVE bindConfig(_, _, _, _)
bindConfig(st, c, border, order) ==
    IF Len(border) = 0 THEN st
    ELSE LET r == resolveConfigType(st.g, c, Head(border), order)
         IN  bindConfig(bindConfigIfaces([st EXCEPT !.g = r.g], c, r.full, c.Bindings[Head(border)], order),
                        c, Tail(border), order)

\* a variant of step 2 in which a bind annotation replaces an earlier binding
RECURSIVE bindTargetsLastWins(_, _, _)
bindTargetsLastWins(g, i, targets) ==
    IF Len(targets) = 0 THEN g
    ELSE LET target == Head(targets)
             p == g.Providers[i]
         IN  IF Len(p.Returns) > 0
             THEN bindTargetsLastWins([g EXCEPT !.Bindings = Put(@, target, p.Returns[1].TypeStr),
                                                !.ProviderMap = Put(@, target, i)],
                                      i, Tail(targets))
             ELSE bindTargetsLastWins(g, i, Tail(targets))

\* resolveBindings step 2, inner loop: the bind targets of provider i
RECURSIVE bindTargets(_, _, _)
bindTargets(g, i, targets) ==
    IF Len(targets) = 0 THEN g
    ELSE LET target == Head(targets)
             p == g.Providers[i]
         IN  IF Has(g.Bindings, target) THEN bindTargets(g, i, Tail(targets))
             ELSE IF Len(p.Returns) > 0
             THEN bindTargets([g EXCEPT !.Bindings = Put(@, target, p.Returns[1].TypeStr),
                                        !.ProviderMap = Put(@, target, i)],
                              i, Tail(targets))
             ELSE bindTargets(g, i, Tail(targets))

\* resolveBindings step 2: explicit bindings from annotations
RECURSIVE bindAnnotations(_, _)
bindAnnotations(g, i) ==
    IF i > Len(g.Providers) THEN g
    ELSE bindAnnotations(
            bindTargets(g, i, GetAnnotationValues(g.Providers[i].Annotations, "bind")), i + 1)

\* autoDetectBindings, first loop: the interface parameters neither bound nor provided
neededIfaces(g) ==
    {t \in UNION {{r.TypeStr : r \in {x \in Range(g.Providers[i].Params) : x.IsIface}} :
                    i \in 1..Len(g.Providers)} :
        ~Has(g.Bindings, t) /\ ~Has(g.ProviderMap, t)}

\* autoDetectBindings: a provider with a return type implementing the interface
providerImplements(p, iface) ==
    \E k \in 1..Len(p.Returns) : Implements(p.Returns[k].TypeStr, iface)

\* autoDetectBindings: candidateTypes, one entry per ProviderMap key whose provider implements
candidateKeys(g, iface) ==
    {k \in DOMAIN g.ProviderMap : providerImplements(g.Providers[g.ProviderMap[k]], iface)}

\* autoDetectBindings, second loop, for one needed interface
detectOne(g, ifaceStr) ==
    LET cands == candidateKeys(g, ifaceStr)
        only == CHOOSE k \in cands : TRUE
    IN  IF ~underlyingIsInterface(ifaceStr) THEN g
        ELSE IF Cardinality(cands) = 1
        THEN [g EXCEPT !.Bindings = Put(@, ifaceStr, only),
                       !.ProviderMap = Put(@, ifaceStr, g.ProviderMap[only])]
        ELSE g

\* autoDetectBindings, second loop; `norder` is the order in which
\* `range neededIfaces` delivers the interfaces
RECURSIVE autoDetectBindings(_, _)
autoDetectBindings(g, norder) ==
    IF Len(norder) = 0 THEN g
    ELSE autoDetectBindings(detectOne(g, Head(norder)), Tail(norder))

\* resolveBindings: the graphs and error lists it can leave, over the orders in
\* which the maps cfg.Bindings, cfg.Groups and neededIfaces are ranged over
resolveBindings(g, c) ==
    UNION { LET st == bindConfig([g |-> g, errs |-> <<>>], c, border, horder)
                g2 == bindAnnotations(st.g, 1)
            IN  { [g |-> autoDetectBindings(g2, norder), errs |-> st.errs] :
                    norder \in Orders(neededIfaces(g2)) } :
            border \in Orders(DOMAIN c.Bindings), horder \in Orders(DOMAIN c.Groups) }

\* a variant of BuildGraph that does not append bindErrs to errs
BuildGraphResultsWithoutBindErrs(providers, c, index) ==
    UNION { LET g0 == buildTypeIndex(newGraph(providers, index), 1)
                g1 == classifyProviders(g0, c, gorders)
                st == registerProviders([g |-> g1, errs |-> <<>>], 1)
                g2 == addGroupedProviders(st.g, 1)
            IN  { [g |-> r.g, errs |-> st.errs] : r \in resolveBindings(g2, c) } :
            gorders \in [1..Len(providers) -> Orders(DOMAIN c.Groups)] }

\* BuildGraph: the [g, errs] pairs it can compute before its final test of errs
BuildGraphResults(providers, c, index) ==
    UNION { LET g0 == buildTypeIndex(newGraph(providers, index), 1)
                g1 == classifyProviders(g0, c, gorders)
                st == registerProviders([g |-> g1, errs |-> <<>>], 1)
                g2 == addGroupedProviders(st.g, 1)
            IN  { [g |-> r.g, errs |-> st.errs \o r.errs] : r \in resolveBindings(g2, c) } :
            gorders \in [1..Len(providers) -> Orders(DOMAIN c.Groups)] }

-----------------------------------------------------------------------------
(* BindCommandInterfaces.                                                  *)

\* the keys of the providerTypes lookup: every param and return type string
providerTypes(g) ==
    UNION {{r.TypeStr : r \in Range(g.Providers[i].Params) \cup Range(g.Providers[i].Returns)} :
            i \in 1..Len(g.Providers)}

\* the first return type of p implementing iface, as a list of zero or one element
firstImplementing(p, iface) ==
    LET hits == {k \in 1..Len(p.Returns) : Implements(p.Returns[k].TypeStr, iface)}
    IN  IF hits = {} THEN <<>>
        ELSE <<p.Returns[CHOOSE k \in hits : \A j \in hits : k <= j].TypeStr>>

\* BindCommandInterfaces: candidateTypes, collected over g.Providers from i on
RECURSIVE candidateTypes(_, _, _)
candidateTypes(g, iface, i) ==
    IF i > Len(g.Providers) THEN <<>>
    ELSE firstImplementing(g.Providers[i], iface) \o candidateTypes(g, iface, i + 1)

\* BindCommandInterfaces, the body run for one command parameter
bindCommandParam(g, param) ==
    LET cands == candidateTypes(g, param.TypeStr, 1)
        g1 == [g EXCEPT !.Bindings = Put(@, param.TypeStr, cands[1])]
    IN  IF ~param.IsIface THEN g
        ELSE IF Has(g.Bindings, param.TypeStr) THEN g
        ELSE IF param.TypeStr \notin providerTypes(g) THEN g
        ELSE IF ~underlyingIsInterface(param.TypeStr) THEN g
        ELSE IF Len(cands) # 1 THEN g
        ELSE IF Has(g.ProviderMap, cands[1])
        THEN [g1 EXCEPT !.ProviderMap = Put(@, param.TypeStr, g.ProviderMap[cands[1]])]
        ELSE g1

RECURSIVE bindCommandParams(_, _)
bindCommandParams(g, params) ==
    IF Len(params) = 0 THEN g
    ELSE bindCommandParams(bindCommandParam(g, Head(params)), Tail(params))

\* BindCommandInterfaces resolves interface bindings for command parameters
RECURSIVE BindCommandInterfaces(_, _)
BindCommandInterfaces(g, commands) ==
    IF Len(commands) = 0 THEN g
    ELSE BindCommandInterfaces(bindCommandParams(g, Head(commands).Params), Tail(commands))

-----------------------------------------------------------------------------
(* VerifyAcyclic.                                                          *)

\* resolveType follows interface bindings to find the concrete type
resolveType(g, typeStr) ==
    IF Has(g.Bindings, typeStr) THEN g.Bindings[typeStr] ELSE typeStr

\* formatCycleProviders: one line per distinct type string of the cycle that has a
\* provider, in the order of the cycle; `seen` are the type strings met so far
RECURSIVE formatCycleProviders(_, _, _)
formatCycleProviders(g, cycle, seen) ==
    IF Len(cycle) = 0 THEN <<>>
    ELSE LET t == Head(cycle)
         IN  IF t \in seen THEN formatCycleProviders(g, Tail(cycle), seen)
             ELSE (IF Has(g.ProviderMap, t) THEN <<g.ProviderMap[t]>> ELSE <<>>)
                  \o formatCycleProviders(g, Tail(cycle), seen \cup {t})

\* the cycle error of VerifyAcyclic: the chain and the providers listed under it
CycleError(g, cycle) ==
    [kind |-> "cycle", cycle |-> cycle, providers |-> formatCycleProviders(g, cycle, {})]

\* checkParams with the chain cut wrongly: `append(curr.trail, depType)` in place of
\* `append(curr.trail[i:], depType)`, so a chain keeps the path that led to the cycle
RECURSIVE checkParamsWholeTrail(_, _, _, _)
checkParamsWholeTrail(g, st, curr, k) ==
    LET params == g.Providers[g.ProviderMap[curr.typeStr]].Params
    IN  IF k > Len(params) THEN st
        ELSE LET depType == resolveType(g, params[k].TypeStr)
                 hits == {i \in 1..Len(curr.trail) : curr.trail[i] = depType}
                 cycle == Append(curr.trail, depType)
                 st1 == IF hits # {} THEN [st EXCEPT !.errs = Append(@, CycleError(g, cycle))] ELSE st
                 st2 == IF Has(g.ProviderMap, depType) /\ depType \notin st1.visited
                        THEN [st1 EXCEPT !.stack = Append(@, [typeStr |-> depType,
                                                              trail |-> Append(curr.trail, depType)])]
                        ELSE st1
             IN  checkParamsWholeTrail(g, st2, curr, k + 1)

\* VerifyAcyclic, the loop over the parameters of the popped frame curr (from k on);
\* st = [stack, visited, errs]
RECURSIVE checkParams(_, _, _, _)
checkParams(g, st, curr, k) ==
    LET params == g.Providers[g.ProviderMap[curr.typeStr]].Params
    IN  IF k > Len(params) THEN st
        ELSE LET depType == resolveType(g, params[k].TypeStr)
                 hits == {i \in 1..Len(curr.trail) : curr.trail[i] = depType}
                 first == CHOOSE i \in hits : \A j \in hits : i <= j
                 cycle == Append(SubSeq(curr.trail, first, Len(curr.trail)), depType)
                 st1 == IF hits # {} THEN [st EXCEPT !.errs = Append(@, CycleError(g, cycle))] ELSE st
                 st2 == IF Has(g.ProviderMap, depType) /\ depType \notin st1.visited
                        THEN [st1 EXCEPT !.stack = Append(@, [typeStr |-> depType,
                                                              trail |-> Append(curr.trail, depType)])]
                        ELSE st1
             IN  checkParams(g, st2, curr, k + 1)

\* VerifyAcyclic, the loop `for len(stack) > 0`
RECURSIVE drainStack(_, _)
drainStack(g, st) ==
    IF Len(st.stack) = 0 THEN st
    ELSE LET curr == st.stack[Len(st.stack)]
             popped == [st EXCEPT !.stack = SubSeq(@, 1, Len(@) - 1)]
         IN  IF curr.typeStr \in st.visited THEN drainStack(g, popped)
             ELSE IF ~Has(g.ProviderMap, curr.typeStr) THEN drainStack(g, popped)
             ELSE drainStack(g, [checkParams(g, popped, curr, 1) EXCEPT
                                    !.visited = @ \cup {curr.typeStr}])

\* VerifyAcyclic, the loop over the keys of ProviderMap: a key already visited is
\* skipped, so an iteration order is a choice of the next unvisited key
RECURSIVE verifyFrom(_, _)
verifyFrom(g, st) ==
    LET todo == (DOMAIN g.ProviderMap) \ st.visited
    IN  IF todo = {} THEN {st.errs}
        ELSE UNION { verifyFrom(g, drainStack(g,
                        [st EXCEPT !.stack = <<[typeStr |-> k, trail |-> <<k>>]>>])) : k \in todo }

\* VerifyAcyclic: the error lists it can return, over the iteration orders of ProviderMap
VerifyAcyclic(g) == verifyFrom(g, [stack |-> <<>>, visited |-> {}, errs |-> <<>>])

-----------------------------------------------------------------------------
(* TopologicalSort and the expansions that call it.                        *)

NoError == ""

\* isProviderInList: a provider of the same package and function name is in the list
isProviderInList(g, i, list) ==
    \E k \in 1..Len(list) :
        /\ g.Providers[list[k]].PkgPath = g.Providers[i].PkgPath
        /\ g.Providers[list[k]].FuncName = g.Providers[i].FuncName

\* the type strings of a list of TypeRef
typeStrs(refs) == [k \in 1..Len(refs) |-> refs[k].TypeStr]

\* the extra edges of the return types of p, in visiting order
RECURSIVE extrasOf(_, _)
extrasOf(extraEdges, rets) ==
    IF Len(rets) = 0 THEN <<>>
    ELSE (IF Has(extraEdges, Head(rets)) THEN extraEdges[Head(rets)] ELSE <<>>)
         \o extrasOf(extraEdges, Tail(rets))

\* the closure `visit` of TopologicalSortWithExtraEdges, and a loop calling it on a
\* list of type strings that stops at the first error; st = [visited, visiting, order, err]
RECURSIVE visit(_, _, _, _)
RECURSIVE visitEach(_, _, _, _)
visit(g, extraEdges, st, typeStr) ==
    LET resolved == resolveType(g, typeStr)
        entered == [st EXCEPT !.visiting = @ \cup {resolved}]
        i == g.ProviderMap[resolved]
        p == g.Providers[i]
        deps == [k \in 1..Len(p.Params) |-> resolveType(g, p.Params[k].TypeStr)]
        after == visitEach(g, extraEdges, entered, deps \o extrasOf(extraEdges, typeStrs(p.Returns)))
    IN  IF resolved \in st.visited THEN st
        ELSE IF resolved \in st.visiting
        THEN [st EXCEPT !.err = "unexpected cycle at " \o resolved]
        ELSE IF ~Has(g.ProviderMap, resolved)
        THEN [entered EXCEPT !.visited = @ \cup {resolved}]
        ELSE IF after.err # NoError THEN after
        ELSE [after EXCEPT
                !.visited = @ \cup {resolved} \cup Range(typeStrs(p.Returns)),
                !.visiting = @ \ {resolved},
                !.order = IF isProviderInList(g, i, @) THEN @ ELSE Append(@, i)]

visitEach(g, extraEdges, st, types) ==
    IF Len(types) = 0 THEN st
    ELSE LET st1 == visit(g, extraEdges, st, Head(types))
         IN  IF st1.err # NoError THEN st1
             ELSE visitEach(g, extraEdges, st1, Tail(types))

\* TopologicalSortWithExtraEdges: [order, err]; order is nil when err is set
TopologicalSortWithExtraEdges(g, targetTypes, extraEdges) ==
    LET st == visitEach(g, extraEdges,
                        [visited |-> {}, visiting |-> {}, order |-> <<>>, err |-> NoError],
                        targetTypes)
    IN  IF st.err # NoError THEN [order |-> <<>>, err |-> st.err]
        ELSE [order |-> st.order, err |-> NoError]

\* TopologicalSort returns providers in dependency order for the given target types
TopologicalSort(g, targetTypes) == TopologicalSortWithExtraEdges(g, targetTypes, EmptyMap)

\* the closure `expand` of ProvidersForTypes / EntryProviders, and its loop over a
\* list of type strings; expanded is the set of keys set to true
RECURSIVE expand(_, _, _)
RECURSIVE expandEach(_, _, _)
expand(g, expanded, typeStr) ==
    LET resolved == resolveType(g, typeStr)
    IN  IF resolved \in expanded THEN expanded
        ELSE IF ~Has(g.ProviderMap, resolved) THEN expanded \cup {resolved}
        ELSE expandEach(g, expanded \cup {resolved},
                        typeStrs(g.Providers[g.ProviderMap[resolved]].Params))

expandEach(g, expanded, types) ==
    IF Len(types) = 0 THEN expanded
    ELSE expandEach(g, expand(g, expanded, Head(types)), Tail(types))

\* "Include invoke providers whose dependencies are all satisfied": one pass over
\* g.Providers from i on
RECURSIVE includeInvokes(_, _, _)
includeInvokes(g, expanded, i) ==
    IF i > Len(g.Providers) THEN expanded
    ELSE LET p == g.Providers[i]
             allSatisfied == \A k \in 1..Len(p.Params) :
                                resolveType(g, p.Params[k].TypeStr) \in expanded
         IN  IF p.IsInvoke /\ allSatisfied
             THEN includeInvokes(g, expanded \cup Range(typeStrs(p.Returns)), i + 1)
             ELSE includeInvokes(g, expanded, i + 1)

\* ProvidersForTypesWithExtraEdges: expansion, invoke pass, sort.Strings, topological sort
ProvidersForTypesWithExtraEdges(g, types, extraEdges) ==
    TopologicalSortWithExtraEdges(
        g, SortStrings(includeInvokes(g, expandEach(g, {}, types), 1)), extraEdges)

\* ProvidersForTypes returns the singleton providers needed for the given type strings
ProvidersForTypes(g, types) ==
    TopologicalSort(g, SortStrings(includeInvokes(g, expandEach(g, {}, types), 1)))

\* AllSingletonProviders: every key of ProviderMap, sorted, topologically sorted
AllSingletonProviders(g) == TopologicalSort(g, SortStrings(DOMAIN g.ProviderMap))

-----------------------------------------------------------------------------
(* The inputs: what Scanner.Scan and BuildConfig hand to BuildGraph.       *)

tA == "*m/a.A"
tB == "*m/b.B"
tC == "*m/c.C"
tI == "m/a.I"
tJ == "m/b.J"

\* the constructor found in slot i of the scan: package path and function name
SlotPkg(i, grouped) ==
    IF grouped THEN <<"m/h/d", "m/h/e", "m/h/f">>[i] ELSE <<"m/a", "m/b", "m/c">>[i]

SlotFunc(i) == <<"NewA", "NewB", "NewC">>[i]

\* the Provider extractProviders builds for a constructor: params and returns are
\* lists of type strings, binds the values of its bind annotations
Provider(i, grouped, invoke, params, returns, binds) ==
    LET path == SlotPkg(i, grouped)
        segs == Split(path, "/")
    IN  [FuncName |-> SlotFunc(i),
         PkgPath |-> path,
         PkgName |-> segs[Len(segs)],
         Params |-> [k \in 1..Len(params) |-> TypeRef(params[k], FALSE)],
         Returns |-> [k \in 1..Len(returns) |-> TypeRef(returns[k], FALSE)],
         IsInvoke |-> invoke,
         Annotations |-> (IF invoke THEN <<[Kind |-> "invoke", Value |-> ""]>> ELSE <<>>)
                         \o [k \in 1..Len(binds) |-> [Kind |-> "bind", Value |-> binds[k]]],
         Groups |-> <<>>]

\* a constructor with no annotation in a package outside every group path
Plain(i, params, returns) == Provider(i, FALSE, FALSE, params, returns, <<>>)

\* the lists of at most n elements of S
SeqUpTo(S, n) == UNION {[1..k -> S] : k \in 0..n}

\* the config BuildConfig returns: a module, explicit bindings, one group on path h
Config(bindings) ==
    [Module |-> Module,
     Bindings |-> bindings,
     Groups |-> [n \in {"ctl"} |-> [Interface |-> "a.I", Paths |-> <<"h">>]]]

\* Scanner.PkgIndex: the short name of every loaded package
PkgIndex(providers) ==
    [n \in {"a", "b"} \cup {providers[i].PkgName : i \in 1..Len(providers)} |->
        IF \E i \in 1..Len(providers) : providers[i].PkgName = n
        THEN (CHOOSE q \in {providers[i] : i \in 1..Len(providers)} : q.PkgName = n).PkgPath
        ELSE "m/" \o n]

\* two constructors over two concrete types: every signature with at most two
\* parameters and one or two returns
TwoPlain ==
    { <<Plain(1, p1, r1), Plain(2, p2, r2)>> :
        p1 \in SeqUpTo({tA, tB}, 2), r1 \in SeqUpTo({tA, tB}, 2) \ {<<>>},
        p2 \in SeqUpTo({tA, tB}, 2), r2 \in SeqUpTo({tA, tB}, 2) \ {<<>>} }

\* three constructors of three concrete types, each with at most one parameter
ThreePlain ==
    { <<Plain(1, p1, <<tA>>), Plain(2, p2, <<r2>>), Plain(3, p3, <<r3>>)>> :
        p1 \in SeqUpTo({tA, tB, tC}, 1), p2 \in SeqUpTo({tA, tB, tC}, 1),
        p3 \in SeqUpTo({tA, tB, tC}, 1), r2 \in {tA, tB}, r3 \in {tA, tC} }

\* a constructor that may be annotated, grouped, or return an interface
Annotated(i) ==
    { Provider(i, k[1], k[2], p, r, k[3]) :
        k \in { <<FALSE, FALSE, <<>> >>, <<FALSE, FALSE, <<tI>> >>, <<FALSE, FALSE, <<tJ>> >>,
                <<TRUE, FALSE, <<>> >>, <<TRUE, FALSE, <<tJ>> >>, <<FALSE, TRUE, <<>> >> },
        p \in {<<>>, <<tI>>, <<tJ>>, <<tI, tJ>>},
        r \in {<<tA>>, <<tB>>, <<tJ>>, <<tA, tB>>} }

\* a plain constructor of a concrete type that may consume an interface
Consumer(i) ==
    { Plain(i, p, <<r>>) : p \in {<<>>, <<tI>>, <<tJ>>}, r \in {tA, tB} }

\* the explicit bindings of the config: none, or one concrete name bound to one interface
ConfigBindings ==
    {EmptyMap} \cup
    { [c \in {cn} |-> <<"a.I">>] : cn \in {"*b.B", "b.J"} } \cup
    { [c \in {cn} |-> <<"b.J">>] : cn \in {"*a.A", "*c.X"} }

\* the graph built so far, as the record the operators take
G == [Providers |-> Providers, ProviderMap |-> ProviderMap, Bindings |-> Bindings,
      Groups |-> Groups, TypeToField |-> TypeToField, shortToFull |-> shortToFull,
      pkgNameToPath |-> pkgNameToPath]

NoQuery ==
    [op |-> "none", targets |-> <<>>, commands |-> <<>>, order |-> <<>>, err |-> NoError, errs |-> <<>>]

Scanned(providers, bindings) ==
    /\ pc = "scanned"
    /\ Providers = providers
    /\ cfg = Config(bindings)
    /\ pkgIndex = PkgIndex(providers)
    /\ ProviderMap = EmptyMap
    /\ Bindings = EmptyMap
    /\ Groups = EmptyMap
    /\ TypeToField = EmptyMap
    /\ shortToFull = EmptyMap
    /\ pkgNameToPath = EmptyMap
    /\ errs = <<>>
    /\ last = NoQuery

Init ==
    \/ \E ps \in TwoPlain \cup ThreePlain : Scanned(ps, EmptyMap)
    \/ \E a \in Annotated(1), c \in Consumer(2), b \in ConfigBindings : Scanned(<<a, c>>, b)
    \/ \E c \in Consumer(1), a \in Annotated(2), b \in ConfigBindings : Scanned(<<c, a>>, b)

-----------------------------------------------------------------------------
(* The calls main and the code generator make.                             *)

graphVars == <<Providers, ProviderMap, Bindings, Groups, TypeToField, shortToFull, pkgNameToPath>>

\* the graph is available to its callers
Ready == pc \in {"built", "verified", "bound"}

\* the calls that only read the graph and return providers
Queries == {"TopologicalSort", "ProvidersForTypes", "AllSingletonProviders"}

\* A query is made on the graph as BuildGraph, VerifyAcyclic or BindCommandInterfaces
\* left it: a query changes nothing but `last`, so the queries made after another
\* query are the queries made before it.
Idle == Ready /\ last.op \notin Queries

\* graph, errs := BuildGraph(providers, cfg, scanner.PkgIndex, scanner.IfaceTypes)
BuildGraph ==
    /\ pc = "scanned"
    /\ \E r \in BuildGraphResults(Providers, cfg, pkgIndex) :
        LET ok == Len(r.errs) = 0
        IN  /\ pc' = IF ok THEN "built" ELSE "failed"
            /\ errs' = r.errs
            /\ Providers' = r.g.Providers
            /\ ProviderMap' = IF ok THEN r.g.ProviderMap ELSE EmptyMap
            /\ Bindings' = IF ok THEN r.g.Bindings ELSE EmptyMap
            /\ Groups' = IF ok THEN r.g.Groups ELSE EmptyMap
            /\ TypeToField' = IF ok THEN r.g.TypeToField ELSE EmptyMap
            /\ shortToFull' = IF ok THEN r.g.shortToFull ELSE EmptyMap
            /\ pkgNameToPath' = IF ok THEN r.g.pkgNameToPath ELSE EmptyMap
    /\ UNCHANGED <<cfg, pkgIndex, last>>

\* graph.VerifyAcyclic(); main goes on only when it returns no error
VerifyAcyclicCall ==
    /\ Ready
    /\ \E e \in VerifyAcyclic(G) :
        /\ last' = [NoQuery EXCEPT !.op = "VerifyAcyclic", !.errs = e]
        /\ pc' = IF pc = "built" THEN (IF Len(e) = 0 THEN "verified" ELSE "cyclic") ELSE pc
    /\ UNCHANGED <<graphVars, cfg, pkgIndex, errs>>

\* the commands CommandDetector.Detect may find: their constructor parameters
Commands ==
    { [k \in 1..Len(ps) |-> [Params |-> [j \in 1..Len(ps[k]) |-> TypeRef(ps[k][j], FALSE)]]] :
        ps \in SeqUpTo(SeqUpTo({tI, tJ}, MaxCmdParams) \ {<<>>}, 1) }

\* graph.BindCommandInterfaces(commands), after VerifyAcyclic as in main
BindCommandInterfacesCall ==
    /\ pc = "verified"
    /\ \E commands \in Commands :
        LET g == BindCommandInterfaces(G, commands)
        IN  /\ ProviderMap' = g.ProviderMap
            /\ Bindings' = g.Bindings
            /\ last' = [NoQuery EXCEPT !.op = "BindCommandInterfaces", !.commands = commands]
    /\ pc' = "bound"
    /\ UNCHANGED <<Providers, Groups, TypeToField, shortToFull, pkgNameToPath, cfg, pkgIndex, errs>>

\* the type strings a caller can ask for: those of the graph and of the signatures
TargetTypes(g) == (DOMAIN g.ProviderMap) \cup (DOMAIN g.Bindings) \cup providerTypes(g)

\* the lists of one to MaxTargets distinct target types
TargetLists(g) ==
    {t \in SeqUpTo(TargetTypes(g), MaxTargets) :
        Len(t) > 0 /\ \A i, j \in 1..Len(t) : i # j => t[i] # t[j]}

\* g.TopologicalSort(targetTypes)
TopologicalSortCall ==
    /\ Idle
    /\ \E targets \in TargetLists(G) :
        LET r == TopologicalSort(G, targets)
        IN  last' = [NoQuery EXCEPT !.op = "TopologicalSort", !.targets = targets,
                                    !.order = r.order, !.err = r.err]
    /\ UNCHANGED <<pc, graphVars, cfg, pkgIndex, errs>>

\* graph.ProvidersForTypes(neededTypes)
ProvidersForTypesCall ==
    /\ Idle
    /\ \E targets \in TargetLists(G) :
        LET r == ProvidersForTypes(G, targets)
        IN  last' = [NoQuery EXCEPT !.op = "ProvidersForTypes", !.targets = targets,
                                    !.order = r.order, !.err = r.err]
    /\ UNCHANGED <<pc, graphVars, cfg, pkgIndex, errs>>

\* g.AllSingletonProviders()
AllSingletonProvidersCall ==
    /\ Idle
    /\ LET r == AllSingletonProviders(G)
       IN  last' = [NoQuery EXCEPT !.op = "AllSingletonProviders",
                                   !.order = r.order, !.err = r.err]
    /\ UNCHANGED <<pc, graphVars, cfg, pkgIndex, errs>>

Next ==
    \/ BuildGraph
    \/ VerifyAcyclicCall
    \/ BindCommandInterfacesCall
    \/ TopologicalSortCall
    \/ ProvidersForTypesCall
    \/ AllSingletonProvidersCall

Spec == Init /\ [][Next]_vars

-----------------------------------------------------------------------------
(* Properties.                                                             *)

\* the resolved dependency relation on the keys of ProviderMap: s -> resolveType(x)
\* for a parameter x of ProviderMap[s], when the resolved type is a key
DependsOn(g, s, t) ==
    /\ s \in DOMAIN g.ProviderMap
    /\ t \in DOMAIN g.ProviderMap
    /\ \E x \in Range(g.Providers[g.ProviderMap[s]].Params) : resolveType(g, x.TypeStr) = t

\* the lists of distinct keys that go round a cycle of the relation
CyclesOf(g) ==
    {c \in SeqUpTo(DOMAIN g.ProviderMap, Cardinality(DOMAIN g.ProviderMap)) :
        /\ Len(c) > 0
        /\ \A i, j \in 1..Len(c) : i # j => c[i] # c[j]
        /\ \A i \in 1..Len(c) : DependsOn(g, c[i], c[(i % Len(c)) + 1])}

\* a reported chain is a cycle of the relation: it ends where it starts and every
\* step is an edge
RealCycle(g, chain) ==
    /\ Len(chain) >= 2
    /\ chain[1] = chain[Len(chain)]
    /\ \A i \in 1..(Len(chain) - 1) : DependsOn(g, chain[i], chain[i + 1])

\* the providers of a successful sort come out in dependency order
InDependencyOrder(g, order) ==
    \A q \in 1..Len(order) :
        \A x \in Range(g.Providers[order[q]].Params) :
            LET t == resolveType(g, x.TypeStr)
            IN  (t \in DOMAIN g.ProviderMap /\ g.ProviderMap[t] # order[q])
                    => \E p \in 1..(q - 1) : order[p] = g.ProviderMap[t]

\* C1: whenever a topological sort (TopologicalSort, ProvidersForTypes,
\* AllSingletonProviders) returns successfully, every provider of the resolved type of
\* a parameter of a returned provider Q, other than Q, comes strictly before Q.
C1_DependencyOrder ==
    (last.op \in Queries /\ last.err = NoError) => InDependencyOrder(G, last.order)

\* C2: on a graph BuildGraph returned and VerifyAcyclic found free of cycles,
\* TopologicalSort over a list of ProviderMap keys never returns "unexpected cycle".
C2_SortAfterVerify ==
    (pc = "verified" /\ last.op = "TopologicalSort" /\ Range(last.targets) \subseteq DOMAIN ProviderMap)
        => last.err = NoError

\* C3: VerifyAcyclic returns errors exactly when the resolved relation on the keys of
\* ProviderMap has a cycle, whatever the iteration order, and every chain it reports
\* is a cycle of that relation.
C3_VerifyAcyclicExact ==
    last.op = "VerifyAcyclic" =>
        /\ (Len(last.errs) > 0) <=> (CyclesOf(G) # {})
        /\ \A i \in 1..Len(last.errs) : RealCycle(G, last.errs[i].cycle)

\* C3 witness: VerifyAcyclic reported a cycle that runs through a binding
C3_Witness ==
    /\ last.op = "VerifyAcyclic"
    /\ Len(last.errs) > 0
    /\ \E s \in DOMAIN ProviderMap :
        \E x \in Range(Providers[ProviderMap[s]].Params) : Has(Bindings, x.TypeStr)

\* the cycles of the relation as sets of edges: one set for each simple cycle,
\* whatever key its list starts at
CycleEdgeSets(g) ==
    { {<<c[i], c[(i % Len(c)) + 1]>> : i \in 1..Len(c)} : c \in CyclesOf(g) }

\* the providers of the keys of a cycle
CycleProviders(g, c) == {g.ProviderMap[c[i]] : i \in 1..Len(c)}

\* C4: when the resolved relation has exactly one simple cycle, VerifyAcyclic returns
\* exactly one cycle error and that error lists every provider on the cycle, for every
\* iteration order and also when a provider has two parameters of the same type.
C4_OneCycleOneError ==
    (last.op = "VerifyAcyclic" /\ Cardinality(CycleEdgeSets(G)) = 1) =>
        /\ Len(last.errs) = 1
        /\ \A c \in CyclesOf(G) : CycleProviders(G, c) \subseteq Range(last.errs[1].providers)

\* provider p has a parameter that resolves through Bindings to a return type of q
ProviderDependsOn(g, p, q) ==
    \E x \in Range(g.Providers[p].Params), r \in Range(g.Providers[q].Returns) :
        resolveType(g, x.TypeStr) = r.TypeStr

\* the cycles of that relation over all the providers of the graph
ProviderCycles(g) ==
    {c \in SeqUpTo(1..Len(g.Providers), Len(g.Providers)) :
        /\ Len(c) > 0
        /\ \A i, j \in 1..Len(c) : i # j => c[i] # c[j]
        /\ \A i \in 1..Len(c) : ProviderDependsOn(g, c[i], c[(i % Len(c)) + 1])}

\* C5: after a successful BuildGraph and a VerifyAcyclic that returned no error, the
\* relation "a parameter of P resolves to a return type of Q" has no cycle over all
\* the providers of the graph, grouped and invoke-only providers included.
C5_NoCycleOverAllProviders ==
    pc = "verified" => ProviderCycles(G) = {}

\* the non-grouped, non-invoke providers
IsSingleton(g, i) == ~g.Providers[i].IsInvoke /\ Len(g.Providers[i].Groups) = 0

\* the non-grouped, non-invoke providers with a return of type string t
SingletonsOf(g, t) ==
    {i \in 1..Len(g.Providers) :
        IsSingleton(g, i) /\ \E r \in Range(g.Providers[i].Returns) : r.TypeStr = t}

\* every return type string of every provider
ProductTypes(g) ==
    UNION {{r.TypeStr : r \in Range(g.Providers[i].Returns)} : i \in 1..Len(g.Providers)}

\* the duplicate-provider errors BuildGraph returned for type string t
DuplicateErrors(t) ==
    {k \in 1..Len(errs) : errs[k].kind = "duplicate provider" /\ errs[k].typeStr = t}

\* C6: BuildGraph fails with a duplicate-provider error whenever two distinct
\* non-grouped, non-invoke providers return the same type string; for k such providers
\* of a type it emits exactly k-1 errors for the type, each naming the first of them
\* in scan order as the existing one.
C6_DuplicateProviders ==
    pc # "scanned" =>
        \A t \in ProductTypes(G) :
            LET ps == SingletonsOf(G, t)
            IN  /\ Cardinality(ps) >= 2 =>
                    (pc = "failed" /\ DuplicateErrors(t) # {})
                /\ ps # {} =>
                    /\ Cardinality(DuplicateErrors(t)) = Cardinality(ps) - 1
                    /\ \A k \in DuplicateErrors(t) :
                        \A i \in ps : errs[k].existing <= i

\* C7: in a graph BuildGraph returned, also after BindCommandInterfaces, every return
\* type T of every non-grouped, non-invoke provider P has ProviderMap[T] = P.
C7_ProviderMapOfReturns ==
    Ready =>
        \A i \in 1..Len(Providers) :
            IsSingleton(G, i) =>
                \A r \in Range(Providers[i].Returns) :
                    Has(ProviderMap, r.TypeStr) /\ ProviderMap[r.TypeStr] = i

\* C8: in a graph BuildGraph returned, also after BindCommandInterfaces, the target of
\* every binding is a key of ProviderMap.
C8_BindingTargetsProvided ==
    Ready => \A b \in DOMAIN Bindings : Has(ProviderMap, Bindings[b])

\* C9: in a graph BuildGraph returned, for every binding I -> C the provider of C has
\* a return type that implements I.
C9_BindingsImplement ==
    pc = "built" =>
        \A b \in DOMAIN Bindings :
            Has(ProviderMap, Bindings[b]) =>
                providerImplements(Providers[ProviderMap[Bindings[b]]], b)

\* C10: in a graph BuildGraph returned, no value of ProviderMap is a grouped or an
\* invoke-only provider, and every key is a return type of a non-grouped, non-invoke
\* provider or an interface bound to a key of the map.
C10_ProviderMapMembers ==
    pc = "built" =>
        \A k \in DOMAIN ProviderMap :
            /\ IsSingleton(G, ProviderMap[k])
            /\ \/ SingletonsOf(G, k) # {}
               \/ Has(Bindings, k) /\ Has(ProviderMap, Bindings[k])

-----------------------------------------------------------------------------
(* BuildGraph on wider scans and configurations.                           *)

tD == "*m/c.D"
tV == "m/c.V"

\* extractParams: the TypeRef of every parameter type; a parameter is optional when
\* its type string ends with the value of an optional annotation
extractParams(types, optionalTypes) ==
    [k \in 1..Len(types) |->
        TypeRef(types[k], \E o \in 1..Len(optionalTypes) : HasSuffix(types[k], optionalTypes[o]))]

\* the Provider extractProviders builds for the constructor `name` of package `path`;
\* optionals and binds are the values of its optional and bind annotations
ProviderAt(path, name, invoke, params, optionals, returns, binds) ==
    LET segs == Split(path, "/")
        annotations ==
            (IF invoke THEN <<[Kind |-> "invoke", Value |-> ""]>> ELSE <<>>)
            \o [k \in 1..Len(optionals) |-> [Kind |-> "optional", Value |-> optionals[k]]]
            \o [k \in 1..Len(binds) |-> [Kind |-> "bind", Value |-> binds[k]]]
    IN  [FuncName |-> name,
         PkgPath |-> path,
         PkgName |-> segs[Len(segs)],
         Params |-> extractParams(params, GetAnnotationValues(annotations, "optional")),
         Returns |-> [k \in 1..Len(returns) |-> TypeRef(returns[k], FALSE)],
         IsInvoke |-> invoke,
         Annotations |-> annotations,
         Groups |-> <<>>]

\* a Config with the given bindings and groups
ConfigWith(bindings, groups) == [Module |-> Module, Bindings |-> bindings, Groups |-> groups]

\* main before BuildGraph: the scan result and the configuration
Loaded(providers, c) ==
    /\ pc = "scanned"
    /\ Providers = providers
    /\ cfg = c
    /\ pkgIndex = PkgIndex(providers)
    /\ ProviderMap = EmptyMap
    /\ Bindings = EmptyMap
    /\ Groups = EmptyMap
    /\ TypeToField = EmptyMap
    /\ shortToFull = EmptyMap
    /\ pkgNameToPath = EmptyMap
    /\ errs = <<>>
    /\ last = NoQuery

\* a group of the configuration
Group(paths) == [Interface |-> "a.I", Paths |-> paths]

\* group configurations: none, one path, two nested paths, two groups
GroupConfigs ==
    { EmptyMap,
      [n \in {"ctl"} |-> Group(<<"h">>)],
      [n \in {"ctl"} |-> Group(<<"h", "h/d">>)],
      [n \in {"ctl", "job"} |-> IF n = "ctl" THEN Group(<<"h/d">>) ELSE Group(<<"h">>)] }

\* three parameterless constructors of three types, in packages inside and outside
\* the group paths
GroupScans ==
    { <<ProviderAt(q1, "NewA", FALSE, <<>>, <<>>, <<tA>>, <<>>),
        ProviderAt(q2, "NewB", FALSE, <<>>, <<>>, <<tB>>, <<>>),
        ProviderAt(q3, "NewC", FALSE, <<>>, <<>>, <<tC>>, <<>>)>> :
        q1 \in {"m/a", "m/h/d", "m/hx/e"}, q2 \in {"m/b", "m/h/d", "m/h"}, q3 \in {"m/h/d", "m/hx/e"} }

\* two producers and a consumer of interfaces: a producer may return two types, a
\* value type, or nothing that implements an interface
AutoScans ==
    { <<ProviderAt("m/a", "NewA", FALSE, <<>>, <<>>, r1, <<>>),
        ProviderAt("m/b", "NewB", FALSE, <<>>, <<>>, r2, <<>>),
        ProviderAt("m/c", "NewD", FALSE, p3, <<>>, <<tD>>, <<>>)>> :
        r1 \in {<<tA>>, <<tA, tC>>, <<tC>>, <<tV>>},
        r2 \in {<<tB>>, <<tC>>, <<tB, "*m/b.B2">>},
        p3 \in {<<tI>>, <<tJ>>, <<tI, tJ>>, <<tA>>} }

\* two producers, the second of which may repeat the type of the first, and a consumer
BindScans ==
    { <<ProviderAt("m/a", "NewA", FALSE, <<>>, <<>>, <<tA>>, <<>>),
        ProviderAt("m/b", "NewB", FALSE, <<>>, <<>>, r2, b2),
        ProviderAt("m/c", "NewD", FALSE, p3, <<>>, <<tD>>, <<>>)>> :
        r2 \in {<<tB>>, <<tB, tA>>}, b2 \in {<<>>, <<tI>>}, p3 \in {<<>>, <<tI>>, <<tJ>>} }

\* the binding of the interface lists to the concrete names, in the order given
BindingsOf(names, lists) == [c \in Range(names) |-> lists[CHOOSE k \in 1..Len(names) : names[k] = c]]

\* explicit bindings: none, distinct interfaces, the same interface under two
\* entries, twice under one entry, under its short and its full name, three times,
\* and names that resolve to nothing known
BindConfigs ==
    { EmptyMap,
      BindingsOf(<<"*a.A">>, << <<"a.I">> >>),
      BindingsOf(<<"*b.B">>, << <<"a.I", "b.J">> >>),
      BindingsOf(<<"*a.A", "*b.B">>, << <<"a.I">>, <<"a.I">> >>),
      BindingsOf(<<"*b.B">>, << <<"a.I", "a.I">> >>),
      BindingsOf(<<"*b.B">>, << <<"a.I", "m/a.I">> >>),
      BindingsOf(<<"*a.A", "*b.B">>, << <<"a.I", "b.J", "a.I">>, <<"b.J", "a.I">> >>),
      BindingsOf(<<"*x.X">>, << <<"y.Y">> >>),
      BindingsOf(<<"*x.X", "*b.B">>, << <<"y.Y">>, <<"y.Y", "b.J">> >>) }

\* two constructors whose types may come from packages with the same last path
\* segment, from a versioned package, or be slices or predeclared types
NameScans ==
    { <<ProviderAt("m/a", "NewA", FALSE, <<>>, <<>>, <<r1>>, <<>>),
        ProviderAt(q2, "NewX", FALSE, p2, <<>>, <<r2>>, <<>>)>> :
        r1 \in {tA, "*m/a/v2.A"}, q2 \in {"m/x/a", "m/b"}, r2 \in {"*m/x/a.A", tB},
        p2 \in {<<>>, <<tI>>, <<"[]m/a.I">>, <<tI, "[]m/a.I">>, <<"string">>} }

InitBuild ==
    \/ \E ps \in GroupScans, gs \in GroupConfigs : Loaded(ps, ConfigWith(EmptyMap, gs))
    \/ \E ps \in NameScans : Loaded(ps, Config(EmptyMap))
    \/ \E ps \in AutoScans : Loaded(ps, ConfigWith(EmptyMap, EmptyMap))
    \/ \E ps \in BindScans, b \in BindConfigs : Loaded(ps, Config(b))

\* main up to the return of BuildGraph
SpecBuild == InitBuild /\ [][BuildGraph]_vars

-----------------------------------------------------------------------------
(* Properties of BuildGraph.                                               *)

\* path is a string prefix of rel
IsStringPrefix(path, rel) == \E n \in 0..Len(rel) : SubSeq(rel, 1, n) = path

\* the providers listed under a group name of the graph
MembersOf(groups, name) == IF Has(groups, name) THEN Range(groups[name]) ELSE {}

\* C11: after BuildGraph, a provider is an element of Groups[g] exactly when some
\* path configured for g is a string prefix of the provider's package path relative
\* to the module, and Groups[g] lists its members in scan order.
C11_GroupMembership ==
    pc = "built" =>
        /\ DOMAIN Groups \subseteq DOMAIN cfg.Groups
        /\ \A name \in DOMAIN cfg.Groups : \A i \in 1..Len(Providers) :
            i \in MembersOf(Groups, name)
                <=> \E k \in 1..Len(cfg.Groups[name].Paths) :
                        IsStringPrefix(cfg.Groups[name].Paths[k],
                                       SubSeq(Providers[i].PkgPath, Len(cfg.Module) + 2,
                                              Len(Providers[i].PkgPath)))
        /\ \A name \in DOMAIN Groups : \A a, b \in 1..Len(Groups[name]) :
            a < b => Groups[name][a] <= Groups[name][b]

\* a built graph with two groups, one holding two providers of different packages,
\* one of them in package hx/e (path h is a prefix of it but not a parent directory),
\* and a provider outside the other group
C11_Witness ==
    /\ pc = "built"
    /\ DOMAIN Groups = {"ctl", "job"}
    /\ \E i, j \in MembersOf(Groups, "job") :
        /\ i < j
        /\ Providers[j].PkgPath = "m/hx/e"
        /\ i \in MembersOf(Groups, "ctl")
        /\ j \notin MembersOf(Groups, "ctl")
    /\ \E i \in 1..Len(Providers) : Providers[i].Groups = <<>>

\* the interfaces the configuration binds (C1), as resolveConfigType resolves their names
ConfigBound(g, c) ==
    UNION { { resolveConfigType(g, c, c.Bindings[cn][k], o).full :
                k \in 1..Len(c.Bindings[cn]), o \in Orders(DOMAIN c.Groups) } :
            cn \in DOMAIN c.Bindings }

\* the interfaces bound by a bind annotation (C2)
AnnotationBound(g) ==
    UNION { Range(GetAnnotationValues(g.Providers[i].Annotations, "bind")) :
            i \in {j \in 1..Len(g.Providers) : Len(g.Providers[j].Returns) > 0} }

\* the providers registered in ProviderMap
Registered(g) == {g.ProviderMap[k] : k \in DOMAIN g.ProviderMap}

\* the interface-typed parameters neither bound by configuration or annotation nor
\* returned by a registered provider
AutoBindable(g, c) ==
    { t \in UNION {{r.TypeStr : r \in {x \in Range(g.Providers[i].Params) : x.IsIface}} :
                    i \in 1..Len(g.Providers)} :
        /\ t \notin AnnotationBound(g)
        /\ t \notin ConfigBound(g, c)
        /\ ~\E i \in Registered(g) : \E k \in 1..Len(g.Providers[i].Returns) :
                g.Providers[i].Returns[k].TypeStr = t }

\* the registered providers with a return type satisfying the interface
Satisfying(g, iface) ==
    { i \in Registered(g) :
        \E k \in 1..Len(g.Providers[i].Returns) : Implements(g.Providers[i].Returns[k].TypeStr, iface) }

\* C12: after BuildGraph, an interface-typed provider parameter that is neither bound
\* by configuration or annotation nor directly provided is bound if and only if
\* exactly one registered provider has a return type satisfying it, and then it is
\* bound to that provider, whatever else that provider returns or is registered under.
C12_AutoBinding ==
    pc = "built" =>
        \A iface \in AutoBindable(G, cfg) :
            /\ Has(Bindings, iface) <=> Cardinality(Satisfying(G, iface)) = 1
            /\ Has(Bindings, iface) =>
                /\ Has(ProviderMap, iface)
                /\ ProviderMap[iface] \in Satisfying(G, iface)

\* the occurrences of interface names in the configured bindings: <<concrete name, position>>
Occurrences(c) == UNION {{<<cn, k>> : k \in 1..Len(c.Bindings[cn])} : cn \in DOMAIN c.Bindings}

\* the full type string a configured name resolves to with the type index of the scan
ResolvedName(providers, c, index, name) ==
    resolveConfigType(buildTypeIndex(newGraph(providers, index), 1), c, name,
                      CHOOSE o \in Orders(DOMAIN c.Groups) : TRUE).full

\* the configured bindings name the same resolved interface more than once
NamesInterfaceTwice(providers, c, index) ==
    \E a, b \in Occurrences(c) :
        /\ a # b
        /\ ResolvedName(providers, c, index, c.Bindings[a[1]][a[2]])
            = ResolvedName(providers, c, index, c.Bindings[b[1]][b[2]])

\* BuildGraph has returned and classification and registration produced no error
RegisteredWithoutError ==
    /\ pc \in {"built", "failed"}
    /\ \A e \in Range(errs) : e.kind # "duplicate provider"

\* C17, as stated: binding resolution never makes BuildGraph fail: when group
\* classification and singleton registration produce no error, BuildGraph returns a
\* graph and an empty error list, whatever the configured bindings are.
C17_PhaseCNeverFails ==
    RegisteredWithoutError => pc = "built" /\ errs = <<>>

\* C17, amended: when group classification and singleton registration produce no
\* error, BuildGraph fails exactly when the configured bindings name the same
\* resolved interface more than once, and then every error it returns is a
\* duplicate-binding error; no other binding makes it fail.
C17_FailsOnlyOnDuplicateBinding ==
    RegisteredWithoutError =>
        /\ pc = "failed" <=> NamesInterfaceTwice(Providers, cfg, pkgIndex)
        /\ \A e \in Range(errs) : e.kind = "duplicate binding"
        /\ pc = "built" => errs = <<>>

\* BuildGraph failed on bindings alone, with two entries naming one interface
C17_Witness ==
    /\ pc = "failed"
    /\ Len(errs) = 1
    /\ errs[1] = DuplicateBinding(tI)
    /\ Cardinality(DOMAIN cfg.Bindings) = 2

\* BuildGraph up to its final test of errs (line 106): the graphs resolveBindings
\* can leave, with the errors collected and the order in which the entries of
\* cfg.Bindings were met
BindResults(providers, c, index) ==
    UNION { LET g0 == buildTypeIndex(newGraph(providers, index), 1)
                g1 == classifyProviders(g0, c, gorders)
                reg == registerProviders([g |-> g1, errs |-> <<>>], 1)
                g2 == addGroupedProviders(reg.g, 1)
                st == bindConfig([g |-> g2, errs |-> <<>>], c, border, horder)
                g3 == bindAnnotations(st.g, 1)
            IN  { [g |-> autoDetectBindings(g3, norder), errs |-> reg.errs \o st.errs,
                   border |-> border] : norder \in Orders(neededIfaces(g3)) } :
            gorders \in [1..Len(providers) -> Orders(DOMAIN c.Groups)],
            border \in Orders(DOMAIN c.Bindings), horder \in Orders(DOMAIN c.Groups) }

\* BuildGraph stopped at the return of resolveBindings, whatever errs holds;
\* last.order keeps the order in which the entries of cfg.Bindings were met
resolveBindingsCall ==
    /\ pc = "scanned"
    /\ \E r \in BindResults(Providers, cfg, pkgIndex) :
        /\ Providers' = r.g.Providers
        /\ ProviderMap' = r.g.ProviderMap
        /\ Bindings' = r.g.Bindings
        /\ Groups' = r.g.Groups
        /\ TypeToField' = r.g.TypeToField
        /\ shortToFull' = r.g.shortToFull
        /\ pkgNameToPath' = r.g.pkgNameToPath
        /\ errs' = r.errs
        /\ last' = [NoQuery EXCEPT !.op = "resolveBindings", !.order = r.border]
    /\ pc' = "resolved"
    /\ UNCHANGED <<cfg, pkgIndex>>

\* BuildGraph seen from inside, at the return of resolveBindings
SpecBind == InitBuild /\ [][resolveBindingsCall]_vars

\* the occurrences of interface names in the order resolveBindings met them
RECURSIVE OccurrencesInOrder(_, _)
OccurrencesInOrder(c, border) ==
    IF Len(border) = 0 THEN <<>>
    ELSE [k \in 1..Len(c.Bindings[Head(border)]) |-> <<Head(border), k>>]
         \o OccurrencesInOrder(c, Tail(border))

\* C18: when the configured bindings name the same resolved interface in several
\* occurrences, resolveBindings emits one duplicate-binding error for each occurrence
\* after the first, and the interface stays bound as the first occurrence processed
\* bound it.
C18_DuplicateBindings ==
    pc = "resolved" =>
        LET occ == OccurrencesInOrder(cfg, last.order)
            iface(i) == ResolvedName(Providers, cfg, pkgIndex, cfg.Bindings[occ[i][1]][occ[i][2]])
            concrete(i) == ResolvedName(Providers, cfg, pkgIndex, occ[i][1])
        IN  /\ \A i \in 1..Len(occ) :
                LET same == {j \in 1..Len(occ) : iface(j) = iface(i)}
                    first == CHOOSE j \in same : \A l \in same : j <= l
                IN  /\ Cardinality({e \in 1..Len(errs) : errs[e] = DuplicateBinding(iface(i))})
                        = Cardinality(same) - 1
                    /\ Has(Bindings, iface(i))
                    /\ Bindings[iface(i)] = concrete(first)
            /\ \A e \in Range(errs) :
                e.kind = "duplicate binding" => \E i \in 1..Len(occ) : iface(i) = e.typeStr

\* resolveBindings met *b.B before *a.A, found m/a.I three times and m/b.J twice,
\* and left both bound to *m/b.B
C18_Witness ==
    /\ pc = "resolved"
    /\ last.order = <<"*b.B", "*a.A">>
    /\ Cardinality({e \in 1..Len(errs) : errs[e] = DuplicateBinding(tI)}) = 2
    /\ Cardinality({e \in 1..Len(errs) : errs[e] = DuplicateBinding(tJ)}) = 1
    /\ Bindings[tI] = tB
    /\ Bindings[tJ] = tB

\* C19: for every full type string F that is a parameter or return type of a
\* provider handed to BuildGraph, resolveConfigType(toShortTypeName(F)) = F, also
\* when two packages of the providers share their last path segment.
C19_ShortNameRoundTrip ==
    pc = "built" =>
        \A F \in providerTypes(G) : \A o \in Orders(DOMAIN cfg.Groups) :
            resolveConfigType(G, cfg, toShortTypeName(F), o).full = F

-----------------------------------------------------------------------------
(* AutoCollect, ValidateEntry and EntryProviders.                          *)

\* Scanner.IfaceTypes as buildIfaceTypes fills it: the exported interface types of
\* the loaded packages, by type string
ifaceTypes == InterfaceTypes

\* findIfaceType: the interface a type string names, found in a parameter, in the
\* element of a slice parameter, in a return, or in the catalogue; "" for nil
findIfaceType(g, typeStr) ==
    LET inParam(x) == \/ x.TypeStr = typeStr /\ x.IsIface /\ underlyingIsInterface(x.TypeStr)
                      \/ /\ HasPrefix(x.TypeStr, "[]")
                         /\ SubSeq(x.TypeStr, 3, Len(x.TypeStr)) = typeStr
                         /\ underlyingIsInterface(typeStr)
        inReturn(x) == x.TypeStr = typeStr /\ x.IsIface /\ underlyingIsInterface(x.TypeStr)
    IN  IF \E i \in 1..Len(g.Providers) :
                \/ \E x \in Range(g.Providers[i].Params) : inParam(x)
                \/ \E x \in Range(g.Providers[i].Returns) : inReturn(x)
        THEN typeStr
        ELSE IF typeStr \in ifaceTypes THEN typeStr
        ELSE ""

\* AutoCollect, the test made on one return type: T implements the interface, or T
\* is not a pointer and *T does
returnMatches(t, iface) ==
    \/ Implements(t, iface)
    \/ ~HasPrefix(t, "*") /\ Implements("*" \o t, iface)

\* AutoCollect, the first loop: the non-invoke providers with a matching return,
\* from provider i on, in the order of g.Providers
RECURSIVE collectMatches(_, _, _)
collectMatches(g, iface, i) ==
    IF i > Len(g.Providers) THEN <<>>
    ELSE LET p == g.Providers[i]
             hit == ~p.IsInvoke /\ \E k \in 1..Len(p.Returns) : returnMatches(p.Returns[k].TypeStr, iface)
         IN  (IF hit THEN <<i>> ELSE <<>>) \o collectMatches(g, iface, i + 1)

\* sort.Slice by PkgPath: the sort is not stable, so every arrangement of the
\* matches in which no provider precedes one of a smaller PkgPath can come out
sortByPkgPath(g, matches) ==
    { o \in Orders(Range(matches)) :
        \A a, b \in 1..Len(o) :
            a < b => ~StrLess(g.Providers[o[b]].PkgPath, g.Providers[o[a]].PkgPath) }

\* a variant of AutoCollect that returns the matches as the loop met them
AutoCollectScanOrder(g, elemTypeStr) ==
    LET ifaceType == findIfaceType(g, elemTypeStr)
    IN  IF ifaceType = "" THEN {<<>>}
        ELSE {collectMatches(g, ifaceType, 1)}

\* AutoCollect: the lists it can return for an element type string
AutoCollect(g, elemTypeStr) ==
    LET ifaceType == findIfaceType(g, elemTypeStr)
    IN  IF ifaceType = "" THEN {<<>>}
        ELSE sortByPkgPath(g, collectMatches(g, ifaceType, 1))

\* ValidateEntry, the loop over g.Bindings met in the order `border`
RECURSIVE provideBound(_, _, _)
provideBound(g, provided, border) ==
    IF Len(border) = 0 THEN provided
    ELSE provideBound(g,
                      IF g.Bindings[Head(border)] \in provided
                      THEN provided \cup {Head(border)} ELSE provided,
                      Tail(border))

\* the missing-dependency error of ValidateEntry
MissingDependency(name, p, typeStr) ==
    [kind |-> "missing dependency", entry |-> name, pkg |-> p.PkgName, func |-> p.FuncName,
     dep |-> toShortTypeName(typeStr)]

\* ValidateEntry, the loop over the parameters of one provider from k on
RECURSIVE validateParams(_, _, _, _, _)
validateParams(g, name, provided, p, k) ==
    IF k > Len(p.Params) THEN <<>>
    ELSE LET param == p.Params[k]
             resolved == resolveType(g, param.TypeStr)
             collected == /\ HasPrefix(param.TypeStr, "[]")
                          /\ \E l \in AutoCollect(g, SubSeq(param.TypeStr, 3, Len(param.TypeStr))) :
                                Len(l) > 0
             rest == validateParams(g, name, provided, p, k + 1)
         IN  IF param.Optional THEN rest
             ELSE IF resolved \in provided THEN rest
             ELSE IF collected THEN rest
             ELSE <<MissingDependency(name, p, param.TypeStr)>> \o rest

\* ValidateEntry, the loop over the providers
RECURSIVE validateProviders(_, _, _, _)
validateProviders(g, name, provided, ps) ==
    IF Len(ps) = 0 THEN <<>>
    ELSE validateParams(g, name, provided, g.Providers[Head(ps)], 1)
         \o validateProviders(g, name, provided, Tail(ps))

\* ValidateEntry: the error lists it can return, over the orders in which the map
\* g.Bindings is ranged over
ValidateEntry(g, name, ps) ==
    LET returned == UNION {Range(typeStrs(g.Providers[ps[k]].Returns)) : k \in 1..Len(ps)}
    IN  { validateProviders(g, name, provideBound(g, returned, border), ps) :
            border \in Orders(DOMAIN g.Bindings) }

\* GroupFieldName converts a group config name to a Container field name
RECURSIVE exportParts(_)
exportParts(parts) ==
    IF Len(parts) = 0 THEN "" ELSE exportName(Head(parts)) \o exportParts(Tail(parts))

GroupFieldName(name) == exportParts(Split(name, "_"))

\* fieldNameToGroup: the group names it can return, "" when the field is no group
fieldNameToGroup(g, fieldName) ==
    LET hits == {n \in DOMAIN g.Groups : GroupFieldName(n) = fieldName}
    IN  IF hits = {} THEN {""} ELSE hits

\* EntryProviders, the reverse map fieldName -> typeStr: when two type strings share
\* a field name the one ranged over last stays
fieldToTypes(g) ==
    LET names == {g.TypeToField[t] : t \in DOMAIN g.TypeToField}
    IN  { f \in [names -> DOMAIN g.TypeToField] : \A n \in names : g.TypeToField[f[n]] = n }

\* EntryProviders, what one field name adds to `needed`
neededOf(g, fieldName, fieldToType, groupName) ==
    IF groupName # ""
    THEN UNION {Range(typeStrs(g.Providers[i].Params)) : i \in Range(g.Groups[groupName])}
    ELSE IF Has(fieldToType, fieldName) THEN {fieldToType[fieldName]}
    ELSE {}

\* EntryProviders: the [order, err] results it can return.  The expansion of a set
\* of types does not depend on the order in which `needed` is ranged over.
EntryProviders(g, fieldNames) ==
    UNION { { LET needed == UNION {neededOf(g, fieldNames[k], f, gsel[k]) : k \in 1..Len(fieldNames)}
              IN  TopologicalSort(g, SortStrings(includeInvokes(g, expandEach(g, {}, SortStrings(needed)), 1))) :
              gsel \in {s \in [1..Len(fieldNames) -> (DOMAIN g.Groups) \cup {""}] :
                            \A k \in 1..Len(fieldNames) : s[k] \in fieldNameToGroup(g, fieldNames[k])} } :
            f \in fieldToTypes(g) }

-----------------------------------------------------------------------------
(* main after BuildGraph: command validation and the calls of the code     *)
(* generator.                                                              *)

\* longest fieldNames list handed to EntryProviders
MaxFields == 2

tK == "m/c.K"

\* main, "Validate per-command dependencies": the error lists the loop can collect
RECURSIVE validateCommands(_, _)
validateCommands(g, commands) ==
    IF Len(commands) = 0 THEN {<<>>}
    ELSE LET cmd == Head(commands)
             r == ProvidersForTypes(g, typeStrs(cmd.Params))
             here == IF Len(cmd.Params) = 0 THEN {<<>>}
                     ELSE IF r.err # NoError THEN {<<[kind |-> "command", err |-> r.err]>>}
                     ELSE ValidateEntry(g, "cmd", r.order)
         IN  {h \o t : h \in here, t \in validateCommands(g, Tail(commands))}

\* a producer of A or V: plain, grouped with a dependency, of a value type,
\* annotated, with a dependency nobody constructs, or depending on the consumer
EntryFirst ==
    << ProviderAt("m/c", "NewA", FALSE, <<>>, <<>>, <<tA>>, <<>>),
       ProviderAt("m/h/d", "NewA", FALSE, <<tB>>, <<>>, <<tA>>, <<>>),
       ProviderAt("m/a", "NewV", FALSE, <<>>, <<>>, <<tV>>, <<>>),
       ProviderAt("m/a", "NewA", FALSE, <<>>, <<>>, <<tA>>, <<tI>>),
       ProviderAt("m/a", "NewA", FALSE, <<tC>>, <<>>, <<tA>>, <<>>),
       ProviderAt("m/a", "NewA", FALSE, <<tD>>, <<>>, <<tA>>, <<>>) >>

\* a producer of B in one of two packages, or an invoke function
EntrySecond ==
    << ProviderAt("m/b", "NewB", FALSE, <<>>, <<>>, <<tB>>, <<>>),
       ProviderAt("m/a", "NewB", FALSE, <<>>, <<>>, <<tB>>, <<>>),
       ProviderAt("m/b", "Start", TRUE, <<tA>>, <<>>, <<>>, <<>>),
       ProviderAt("m/b", "Start", TRUE, <<tI>>, <<>>, <<"*m/b.S">>, <<>>),
       ProviderAt("m/b", "Start", TRUE, <<>>, <<>>, <<tB>>, <<>>) >>

\* a consumer with the given parameters and optional annotations
EntryThird(params, optionals) == ProviderAt("m/c", "NewD", FALSE, params, optionals, <<tD>>, <<>>)

\* what a consumer may take: an interface, a slice of an interface, a type nobody
\* constructs
ConsumerParams == {<<tI>>, <<"[]m/a.I">>, <<tK>>, <<tC>>, <<"[]m/b.J">>, <<tA, tJ>>}

\* the explicit bindings of the config: one, or a chain of three
OneBinding == [c \in {"*a.A"} |-> <<"a.I">>]

ChainBindings ==
    [c \in {"b.J", "*b.B", "a.I"} |->
        IF c = "b.J" THEN <<"a.I">> ELSE IF c = "*b.B" THEN <<"b.J">> ELSE <<"c.K">>]

InitEntry ==
    \/ \E i \in 1..6, j \in 1..5, ps \in ConsumerParams :
        Loaded(<<EntryFirst[i], EntrySecond[j], EntryThird(ps, <<>>)>>, Config(EmptyMap))
    \/ \E i \in {1, 3}, j \in {1, 4}, ps \in {<<tC>>, <<tI>>, <<tA, tJ>>}, os \in {<<"c.C">>, <<"a.I">>} :
        Loaded(<<EntryFirst[i], EntrySecond[j], EntryThird(ps, os)>>, Config(EmptyMap))
    \/ \E i \in 1..4, j \in {1, 3}, ps \in {<<tI>>, <<"[]m/a.I">>, <<tA, tJ>>} :
        Loaded(<<EntryFirst[i], EntrySecond[j], EntryThird(ps, <<>>)>>, Config(OneBinding))
    \/ \E i \in {1, 2}, j \in {1, 2}, ps \in {<<tK>>, <<tI>>} :
        Loaded(<<EntryFirst[i], EntrySecond[j], EntryThird(ps, <<>>)>>, Config(ChainBindings))

\* the calls that only read the graph
EntryQueries ==
    Queries \cup {"AutoCollect", "ValidateEntry", "EntryProviders", "ValidateCommands",
                 "ProvidersForTypesWithExtraEdges"}

\* a query of the code generator is made on the verified graph
IdleEntry == pc = "verified" /\ last.op \notin EntryQueries

\* main, "Validate per-command dependencies", right after BindCommandInterfaces:
\* with an error main exits, without one it goes on to code generation
ValidateCommands ==
    /\ pc = "bound"
    /\ last.op = "BindCommandInterfaces"
    /\ \E e \in validateCommands(G, last.commands) :
        /\ last' = [NoQuery EXCEPT !.op = "ValidateCommands", !.commands = last.commands, !.errs = e]
        /\ pc' = IF Len(e) = 0 THEN "validated" ELSE "invalid"
    /\ UNCHANGED <<graphVars, cfg, pkgIndex, errs>>

\* the element type strings a caller can hand to AutoCollect
ElemTypes == InterfaceTypes \cup {tA, "*m/a.I"}

\* a variant of the AutoCollect call that sorts g.Providers itself by PkgPath
AutoCollectCallInPlace ==
    /\ IdleEntry
    /\ \E elem \in ElemTypes : \E r \in AutoCollect(G, elem) :
        /\ last' = [NoQuery EXCEPT !.op = "AutoCollect", !.targets = <<elem>>, !.order = r]
        /\ \E o \in sortByPkgPath(G, [i \in 1..Len(Providers) |-> i]) :
            Providers' = [i \in 1..Len(o) |-> Providers[o[i]]]
    /\ UNCHANGED <<pc, ProviderMap, Bindings, Groups, TypeToField, shortToFull, pkgNameToPath,
                   cfg, pkgIndex, errs>>

\* g.AutoCollect(elemTypeStr)
AutoCollectCall ==
    /\ IdleEntry
    /\ \E elem \in ElemTypes : \E r \in AutoCollect(G, elem) :
        last' = [NoQuery EXCEPT !.op = "AutoCollect", !.targets = <<elem>>, !.order = r]
    /\ UNCHANGED <<pc, graphVars, cfg, pkgIndex, errs>>

\* the provider lists a caller can hand to ValidateEntry: the providers of a
\* subset of g.Providers in any order
ProviderLists(g) == UNION {Orders(S) : S \in SUBSET (1..Len(g.Providers))}

\* g.ValidateEntry(name, providers): the list is kept in last.order
ValidateEntryCall ==
    /\ IdleEntry
    /\ \E ps \in ProviderLists(G) : \E e \in ValidateEntry(G, "app", ps) :
        last' = [NoQuery EXCEPT !.op = "ValidateEntry", !.order = ps, !.errs = e]
    /\ UNCHANGED <<pc, graphVars, cfg, pkgIndex, errs>>

\* the field names a caller can ask for: those of the Container and one that is not
FieldNames(g) ==
    {g.TypeToField[t] : t \in DOMAIN g.TypeToField}
        \cup {GroupFieldName(n) : n \in DOMAIN g.Groups} \cup {"Missing"}

\* g.EntryProviders(fieldNames)
EntryProvidersCall ==
    /\ IdleEntry
    /\ \E fields \in {f \in SeqUpTo(FieldNames(G), MaxFields) :
                        \A i, j \in 1..Len(f) : i # j => f[i] # f[j]} :
        \E r \in EntryProviders(G, fields) :
            last' = [NoQuery EXCEPT !.op = "EntryProviders", !.targets = fields,
                                    !.order = r.order, !.err = r.err]
    /\ UNCHANGED <<pc, graphVars, cfg, pkgIndex, errs>>

\* the extra edges a caller can hand over: one more dependency for one provided type
ExtraEdges(g) ==
    { [t \in {from} |-> <<to>>] : from \in DOMAIN g.ProviderMap, to \in TargetTypes(g) }

\* g.ProvidersForTypesWithExtraEdges(typeStrs, extraEdges) for one requested type
ProvidersForTypesWithExtraEdgesCall ==
    /\ IdleEntry
    /\ \E target \in TargetTypes(G), extraEdges \in ExtraEdges(G) :
        LET r == ProvidersForTypesWithExtraEdges(G, <<target>>, extraEdges)
        IN  last' = [op |-> "ProvidersForTypesWithExtraEdges", targets |-> <<target>>,
                     commands |-> <<>>, order |-> r.order, err |-> r.err, errs |-> <<>>,
                     extraEdges |-> extraEdges]
    /\ UNCHANGED <<pc, graphVars, cfg, pkgIndex, errs>>

NextEntry ==
    \/ BuildGraph
    \/ VerifyAcyclicCall
    \/ AutoCollectCall
    \/ ValidateEntryCall
    \/ EntryProvidersCall
    \/ ProvidersForTypesWithExtraEdgesCall
    \/ IdleEntry /\ TopologicalSortCall
    \/ IdleEntry /\ ProvidersForTypesCall
    \/ IdleEntry /\ AllSingletonProvidersCall

\* the graph from the scan to its verification, and the calls made on it
SpecEntry == InitEntry /\ [][NextEntry]_vars

NextMain ==
    \/ BuildGraph
    \/ VerifyAcyclicCall
    \/ BindCommandInterfacesCall
    \/ ValidateCommands

\* main from the scan to the validation of the commands
SpecMain == InitEntry /\ [][NextMain]_vars

-----------------------------------------------------------------------------
(* Properties of the calls made on the graph.                              *)

\* a <= b in Go's string order
StrLeq(a, b) == a = b \/ StrLess(a, b)

\* the providers AutoCollect is to return for an interface: not invoke, with a
\* return type T such that T or *T satisfies the interface
Collectible(g, iface) ==
    { i \in 1..Len(g.Providers) :
        /\ ~g.Providers[i].IsInvoke
        /\ \E k \in 1..Len(g.Providers[i].Returns) :
            LET t == g.Providers[i].Returns[k].TypeStr
            IN  Implements(t, iface) \/ Implements("*" \o t, iface) }

\* C13: AutoCollect of an interface returns exactly the non-invoke providers, grouped
\* ones included, with a return type T such that T or *T satisfies it, each once, in
\* non-decreasing PkgPath order; for a type string that names no interface it
\* returns nothing.
C13_AutoCollect ==
    last.op = "AutoCollect" =>
        LET elem == last.targets[1]
            r == last.order
        IN  IF elem \in InterfaceTypes
            THEN /\ Range(r) = Collectible(G, elem)
                 /\ Len(r) = Cardinality(Range(r))
                 /\ \A a, b \in 1..Len(r) :
                      a < b => StrLeq(Providers[r[a]].PkgPath, Providers[r[b]].PkgPath)
            ELSE r = <<>>

\* AutoCollect returned a grouped provider after a provider scanned later, and left
\* out nothing but the consumer
C13_Witness ==
    /\ last.op = "AutoCollect"
    /\ Len(last.order) = 2
    /\ last.order[1] > last.order[2]
    /\ Providers[last.order[2]].Groups # <<>>

\* the types a list of providers returns, and the interfaces bound to one of them
ProvidedBy(g, ps) ==
    LET returned == UNION {Range(typeStrs(g.Providers[ps[k]].Returns)) : k \in 1..Len(ps)}
    IN  returned \cup {t \in DOMAIN g.Bindings : g.Bindings[t] \in returned}

\* a slice type whose element type has a non-empty AutoCollect
AutoCollectible(g, typeStr) ==
    /\ HasPrefix(typeStr, "[]")
    /\ LET elem == SubSeq(typeStr, 3, Len(typeStr))
       IN  elem \in InterfaceTypes /\ Collectible(g, elem) # {}

\* the parameter x of provider i lacks its dependency among the providers ps
Missing(g, ps, x) ==
    /\ ~x.Optional
    /\ resolveType(g, x.TypeStr) \notin ProvidedBy(g, ps)
    /\ ~AutoCollectible(g, x.TypeStr)

\* C14: ValidateEntry(name, ps) emits a missing-dependency error for provider p of ps
\* and parameter x of p exactly when x is not optional, resolveType(x) is neither a
\* return type of a provider of ps nor an interface bound to one, and x is not a
\* slice whose element type has a non-empty AutoCollect.
C14_ValidateEntry ==
    last.op = "ValidateEntry" =>
        LET ps == last.order
        IN  /\ \A k \in 1..Len(ps) : \A x \in Range(Providers[ps[k]].Params) :
                Missing(G, ps, x)
                    <=> \E e \in Range(last.errs) :
                            /\ e.pkg = Providers[ps[k]].PkgName
                            /\ e.func = Providers[ps[k]].FuncName
                            /\ e.dep = toShortTypeName(x.TypeStr)
            /\ \A e \in Range(last.errs) :
                \E k \in 1..Len(ps) : \E x \in Range(Providers[ps[k]].Params) :
                    /\ e.pkg = Providers[ps[k]].PkgName
                    /\ e.func = Providers[ps[k]].FuncName
                    /\ e.dep = toShortTypeName(x.TypeStr)
                    /\ ~x.Optional

\* C15: in main, when a discovered command has a constructor parameter whose
\* binding-resolved type has no provider in ProviderMap and which is not an
\* auto-collectible slice, the validation of the commands reports a
\* missing-dependency error and main stops before code generation.
C15_CommandDependencyChecked ==
    pc \in {"validated", "invalid"} =>
        \A k \in 1..Len(last.commands) : \A x \in Range(last.commands[k].Params) :
            (/\ ~Has(ProviderMap, resolveType(G, x.TypeStr))
             /\ ~AutoCollectible(G, x.TypeStr))
                => /\ pc = "invalid"
                   /\ \E e \in Range(last.errs) : e.kind = "missing dependency"

\* the invoke providers all of whose parameters resolve to a type of the set
SatisfiedInvokes(g, expanded) ==
    { i \in 1..Len(g.Providers) :
        /\ g.Providers[i].IsInvoke
        /\ \A x \in Range(g.Providers[i].Params) : resolveType(g, x.TypeStr) \in expanded }

\* the sets of types EntryProviders can take as requested for a list of field names
RequestedByFields(g, fieldNames) ==
    UNION { { UNION {neededOf(g, fieldNames[k], f, gsel[k]) : k \in 1..Len(fieldNames)} :
              gsel \in {s \in [1..Len(fieldNames) -> (DOMAIN g.Groups) \cup {""}] :
                            \A k \in 1..Len(fieldNames) : s[k] \in fieldNameToGroup(g, fieldNames[k])} } :
            f \in fieldToTypes(g) }

ReadOnly ==
    {"VerifyAcyclic", "TopologicalSort", "ProvidersForTypes", "ProvidersForTypesWithExtraEdges",
     "EntryProviders", "AllSingletonProviders", "AutoCollect", "ValidateEntry"}

\* C20: VerifyAcyclic, TopologicalSort, ProvidersForTypes (with or without extra
\* edges), EntryProviders, AllSingletonProviders, AutoCollect and ValidateEntry leave
\* Providers, ProviderMap, Bindings, Groups and TypeToField unchanged; hence
\* VerifyAcyclic run again on a graph for which it returned an empty list returns an
\* empty list again.
C20_QueriesReadOnly ==
    /\ [][(last' # last /\ last'.op \in ReadOnly)
            => UNCHANGED <<Providers, ProviderMap, Bindings, Groups, TypeToField>>]_vars
    /\ [](pc = "verified" =>
            /\ \A e \in VerifyAcyclic(G) : e = <<>>
            /\ last.op = "VerifyAcyclic" => last.errs = <<>>)

\* a query returned two providers on a verified graph with a binding, one of the
\* graphs VerifyAcyclic is then run on again
C20_Witness ==
    /\ pc = "verified"
    /\ last.op = "EntryProviders"
    /\ Len(last.order) >= 2
    /\ Bindings # EmptyMap

-----------------------------------------------------------------------------
(* Further properties of BuildGraph.                                       *)

\* no element occurs twice in the list
NoRepeat(list) == \A a, b \in 1..Len(list) : a # b => list[a] # list[b]

\* C30: after BuildGraph, each provider occurs at most once in Groups[g] and each
\* group name at most once in a provider's Groups list, also when several path
\* prefixes configured for the group match the provider's package path.
C30_GroupedOnce ==
    pc = "built" =>
        /\ \A name \in DOMAIN Groups : NoRepeat(Groups[name])
        /\ \A i \in 1..Len(Providers) : NoRepeat(Providers[i].Groups)

-----------------------------------------------------------------------------
(* Properties of BindCommandInterfaces.                                    *)

\* the providers of the graph with a return type satisfying the interface
Implementers(g, iface) ==
    { i \in 1..Len(g.Providers) :
        \E k \in 1..Len(g.Providers[i].Returns) : Implements(g.Providers[i].Returns[k].TypeStr, iface) }

\* the interface-typed parameters of the commands
CommandIfaces(commands) ==
    UNION { {x.TypeStr : x \in {y \in Range(commands[k].Params) : y.IsIface}} : k \in 1..Len(commands) }

\* C29: BindCommandInterfaces adds a binding only for an interface-typed command
\* parameter that is not yet bound, whose type string occurs in a provider
\* signature and which exactly one provider of the graph satisfies; with every
\* binding it adds it inserts the interface key into ProviderMap with the provider
\* of the bound concrete type; every other entry of Bindings and ProviderMap is
\* left as it was.
C29_BindCommandInterfacesFrame ==
    [][(pc = "verified" /\ pc' = "bound") =>
        /\ \A t \in DOMAIN Bindings : Has(Bindings', t) /\ Bindings'[t] = Bindings[t]
        /\ \A t \in (DOMAIN Bindings') \ (DOMAIN Bindings) :
            /\ t \in CommandIfaces(last'.commands)
            /\ t \in providerTypes(G)
            /\ Cardinality(Implementers(G, t)) = 1
            /\ Has(ProviderMap, Bindings'[t])
            /\ Has(ProviderMap', t)
            /\ ProviderMap'[t] = ProviderMap[Bindings'[t]]
        /\ \A t \in DOMAIN ProviderMap :
            t \notin (DOMAIN Bindings') \ (DOMAIN Bindings)
                => Has(ProviderMap', t) /\ ProviderMap'[t] = ProviderMap[t]
        /\ (DOMAIN ProviderMap') \ (DOMAIN ProviderMap) \subseteq (DOMAIN Bindings') \ (DOMAIN Bindings)
    ]_vars

-----------------------------------------------------------------------------
(* main from BuildGraph to the per-command ProvidersForTypes calls.        *)

\* main, "Validate per-command dependencies": pp, err := graph.ProvidersForTypes(neededTypes)
\* for one command that has dependencies, on the graph BindCommandInterfaces left
CommandProvidersCall ==
    /\ pc = "bound"
    /\ last.op = "BindCommandInterfaces"
    /\ \E k \in 1..Len(last.commands) :
        LET neededTypes == typeStrs(last.commands[k].Params)
            r == ProvidersForTypes(G, neededTypes)
        IN  /\ Len(neededTypes) > 0
            /\ last' = [NoQuery EXCEPT !.op = "ProvidersForTypes", !.commands = last.commands,
                                       !.targets = neededTypes, !.order = r.order, !.err = r.err]
    /\ UNCHANGED <<pc, graphVars, cfg, pkgIndex, errs>>

NextCommands ==
    \/ BuildGraph
    \/ VerifyAcyclicCall
    \/ BindCommandInterfacesCall
    \/ CommandProvidersCall

SpecCommands == Init /\ [][NextCommands]_vars

\* C23: in main's order, BuildGraph, VerifyAcyclic without errors,
\* BindCommandInterfaces, the ProvidersForTypes call made for a command's parameters
\* never returns an "unexpected cycle" error.
C23_NoCycleAfterCommandBinding ==
    (pc = "bound" /\ last.op = "ProvidersForTypes") => ~HasPrefix(last.err, "unexpected cycle")

-----------------------------------------------------------------------------
(* BuildGraph step by step: registration, then the three sub-steps of      *)
(* resolveBindings, followed by VerifyAcyclic and BindCommandInterfaces.   *)

\* two producers that may both carry bind annotations, for the same or for different
\* interfaces, and a consumer
PrecedenceScans ==
    { <<ProviderAt("m/a", "NewA", FALSE, <<>>, <<>>, <<tA>>, b1),
        ProviderAt("m/b", "NewB", FALSE, <<>>, <<>>, <<tB>>, b2),
        ProviderAt("m/c", "NewD", FALSE, p3, <<>>, <<tD>>, <<>>)>> :
        b1 \in {<<>>, <<tI>>}, b2 \in {<<>>, <<tI>>, <<tJ, tI>>}, p3 \in {<<>>, <<tI>>, <<tJ>>, <<tI, tJ>>} }

\* explicit bindings: none, or one interface bound to either producer
PrecedenceConfigs ==
    { EmptyMap,
      BindingsOf(<<"*a.A">>, << <<"a.I">> >>),
      BindingsOf(<<"*b.B">>, << <<"a.I">> >>),
      BindingsOf(<<"*b.B">>, << <<"b.J">> >>) }

InitSteps ==
    \/ \E ps \in PrecedenceScans, b \in PrecedenceConfigs : Loaded(ps, Config(b))
    \/ \E ps \in BindScans, b \in BindConfigs : Loaded(ps, Config(b))
    \/ \E ps \in AutoScans : Loaded(ps, ConfigWith(EmptyMap, EmptyMap))

\* BuildGraph phases 1 and 2: the graphs and error lists they can leave
RegisterResults(providers, c, index) ==
    { LET g0 == buildTypeIndex(newGraph(providers, index), 1)
          g1 == classifyProviders(g0, c, gorders)
          st == registerProviders([g |-> g1, errs |-> <<>>], 1)
      IN  [g |-> addGroupedProviders(st.g, 1), errs |-> st.errs] :
      gorders \in [1..Len(providers) -> Orders(DOMAIN c.Groups)] }

\* BuildGraph up to the call of resolveBindings
RegisterStep ==
    /\ pc = "scanned"
    /\ \E r \in RegisterResults(Providers, cfg, pkgIndex) :
        /\ Providers' = r.g.Providers
        /\ ProviderMap' = r.g.ProviderMap
        /\ Bindings' = r.g.Bindings
        /\ Groups' = r.g.Groups
        /\ TypeToField' = r.g.TypeToField
        /\ shortToFull' = r.g.shortToFull
        /\ pkgNameToPath' = r.g.pkgNameToPath
        /\ errs' = r.errs
    /\ pc' = "registered"
    /\ UNCHANGED <<cfg, pkgIndex, last>>

\* resolveBindings step 1: the graphs and error lists it can leave
BindConfigResults(g, c) ==
    { bindConfig([g |-> g, errs |-> <<>>], c, border, horder) :
        border \in Orders(DOMAIN c.Bindings), horder \in Orders(DOMAIN c.Groups) }

\* resolveBindings, "1. Explicit bindings from config"
BindConfigStep ==
    /\ pc = "registered"
    /\ \E r \in BindConfigResults(G, cfg) :
        /\ ProviderMap' = r.g.ProviderMap
        /\ Bindings' = r.g.Bindings
        /\ TypeToField' = r.g.TypeToField
        /\ pkgNameToPath' = r.g.pkgNameToPath
        /\ errs' = errs \o r.errs
    /\ pc' = "configured"
    /\ UNCHANGED <<Providers, Groups, shortToFull, cfg, pkgIndex, last>>

\* resolveBindings, "2. Explicit bindings from annotations"
BindAnnotationsStep ==
    /\ pc = "configured"
    /\ LET g == bindAnnotations(G, 1)
       IN  /\ ProviderMap' = g.ProviderMap
           /\ Bindings' = g.Bindings
    /\ pc' = "annotated"
    /\ UNCHANGED <<Providers, Groups, TypeToField, shortToFull, pkgNameToPath, errs, cfg, pkgIndex, last>>

\* autoDetectBindings: the graphs it can leave
AutoDetectResults(g) == { autoDetectBindings(g, norder) : norder \in Orders(neededIfaces(g)) }

\* resolveBindings, "3. Auto-detect", and the return of BuildGraph
AutoDetectStep ==
    /\ pc = "annotated"
    /\ \E g \in AutoDetectResults(G) :
        /\ ProviderMap' = g.ProviderMap
        /\ Bindings' = g.Bindings
    /\ pc' = IF Len(errs) = 0 THEN "built" ELSE "failed"
    /\ UNCHANGED <<Providers, Groups, TypeToField, shortToFull, pkgNameToPath, errs, cfg, pkgIndex, last>>

NextSteps ==
    \/ RegisterStep
    \/ BindConfigStep
    \/ BindAnnotationsStep
    \/ AutoDetectStep
    \/ VerifyAcyclicCall
    \/ BindCommandInterfacesCall

SpecSteps == InitSteps /\ [][NextSteps]_vars

\* the providers carrying a bind annotation for the target
Annotating(target) ==
    { i \in 1..Len(Providers) : target \in Range(GetAnnotationValues(Providers[i].Annotations, "bind")) }

\* C24: once a key of Bindings is set no later step changes its value: a config
\* binding is not replaced by an annotation or an auto-detected binding, an
\* annotation binding is not replaced by an auto-detected one, among several bind
\* annotations for the same target the first provider in scan order wins, and
\* BindCommandInterfaces changes no existing binding.
C24_BindingPrecedence ==
    [][/\ \A t \in DOMAIN Bindings : Has(Bindings', t) /\ Bindings'[t] = Bindings[t]
       /\ pc = "configured" =>
            \A t \in {t3 \in InterfaceTypes : Annotating(t3) # {}} :
                ~Has(Bindings, t) =>
                    LET first == CHOOSE i \in Annotating(t) : \A j \in Annotating(t) : i <= j
                    IN  /\ Has(Bindings', t)
                        /\ Bindings'[t] = Providers[first].Returns[1].TypeStr
                        /\ ProviderMap'[t] = first
    ]_vars

\* the configuration binds m/a.I to *m/b.B, both producers carry a bind annotation
\* for m/a.I, the second one also for m/b.J, and after BindCommandInterfaces was
\* called for a command taking m/a.I the interface is still bound as configured
C24_Witness ==
    /\ pc = "bound"
    /\ cfg.Bindings = BindingsOf(<<"*b.B">>, << <<"a.I">> >>)
    /\ Annotating(tI) = {1, 2}
    /\ Annotating(tJ) = {2}
    /\ tI \in CommandIfaces(last.commands)
    /\ Bindings[tI] = tB
    /\ Bindings[tJ] = tB

\* C25: the Bindings and ProviderMap autoDetectBindings leaves are the same for every
\* order in which the needed interfaces are ranged over, and a provider that is the
\* only registered one satisfying two needed interfaces ends up bound to both.
C25_AutoDetectOrderIndependent ==
    [][pc = "annotated" =>
        /\ \A g \in AutoDetectResults(G) : g.Bindings = Bindings' /\ g.ProviderMap = ProviderMap'
        /\ \A s, t \in neededIfaces(G) : \A i \in 1..Len(Providers) :
            (s # t /\ Satisfying(G, s) = {i} /\ Satisfying(G, t) = {i})
                => /\ Has(Bindings', s) /\ Has(Bindings', t)
                   /\ ProviderMap'[s] = i /\ ProviderMap'[t] = i
    ]_vars

-----------------------------------------------------------------------------
(* Properties of FieldName over the registered types.                      *)

\* C21: after BuildGraph, two distinct keys of TypeToField have the same field name
\* only if they differ in nothing but the leading pointer marker; types of the same
\* name from different packages whose paths end in the same segment get different
\* field names, so the reverse map of EntryProviders is single-valued.
C21_FieldNamesDistinct ==
    pc = "built" =>
        \A S, T \in DOMAIN TypeToField :
            (S # T /\ TypeToField[S] = TypeToField[T]) => TrimPrefix(S, "*") = TrimPrefix(T, "*")

-----------------------------------------------------------------------------
(* TopologicalSortWithExtraEdges called with extra edges.                  *)

InitSort ==
    \/ \E ps \in ThreePlain : Scanned(ps, EmptyMap)
    \/ \E a \in Annotated(1), c \in Consumer(2), b \in ConfigBindings : Scanned(<<a, c>>, b)

\* the extra edges a caller can hand over: none, or one more dependency for one
\* return type of a registered provider
SortEdges(g) ==
    {EmptyMap} \cup
    { [t \in {from} |-> <<to>>] :
        from \in UNION {Range(typeStrs(g.Providers[i].Returns)) : i \in Registered(g)},
        to \in (DOMAIN g.ProviderMap) \cup (DOMAIN g.Bindings) }

\* g.TopologicalSortWithExtraEdges(targetTypes, extraEdges)
TopologicalSortWithExtraEdgesCall ==
    /\ pc \in {"built", "verified"}
    /\ last.op \in {"none", "VerifyAcyclic"}
    /\ \E targets \in TargetLists(G), extraEdges \in SortEdges(G) :
        LET r == TopologicalSortWithExtraEdges(G, targets, extraEdges)
        IN  last' = [op |-> "TopologicalSortWithExtraEdges", targets |-> targets,
                     commands |-> <<>>, order |-> r.order, err |-> r.err, errs |-> <<>>,
                     extraEdges |-> extraEdges]
    /\ UNCHANGED <<pc, graphVars, cfg, pkgIndex, errs>>

NextSort ==
    \/ BuildGraph
    \/ VerifyAcyclicCall
    \/ TopologicalSortWithExtraEdgesCall

SpecSort == InitSort /\ [][NextSort]_vars

\* the types one step away from a provided type: the binding-resolved parameters of
\* its provider and the binding-resolved extra edges of that provider's return types
StepFrom(g, extraEdges, t) ==
    IF ~Has(g.ProviderMap, t) THEN {}
    ELSE LET p == g.Providers[g.ProviderMap[t]]
         IN  {resolveType(g, x) : x \in Range(typeStrs(p.Params))}
             \cup {resolveType(g, x) : x \in Range(extrasOf(extraEdges, typeStrs(p.Returns)))}

\* the types reachable from a set of types
RECURSIVE ReachableFrom(_, _, _)
ReachableFrom(g, extraEdges, S) ==
    LET more == S \cup UNION {StepFrom(g, extraEdges, t) : t \in S}
    IN  IF more = S THEN S ELSE ReachableFrom(g, extraEdges, more)

\* the providers of the reachable types
ReachableProviders(g, extraEdges, targets) ==
    LET reach == ReachableFrom(g, extraEdges, {resolveType(g, t) : t \in Range(targets)})
    IN  {g.ProviderMap[t] : t \in reach \cap DOMAIN g.ProviderMap}

\* a successful call of TopologicalSortWithExtraEdges has returned
SortedWithExtraEdges == last.op = "TopologicalSortWithExtraEdges" /\ last.err = NoError

\* C26: a successful TopologicalSortWithExtraEdges returns each provider at most once
\* by package path and function name, and the providers it returns are exactly the
\* ProviderMap providers of the types reachable from the targets through
\* binding-resolved parameters and extra edges.
C26_SortReturnsReachableOnce ==
    SortedWithExtraEdges =>
        /\ \A a, b \in 1..Len(last.order) :
            a # b => \/ Providers[last.order[a]].PkgPath # Providers[last.order[b]].PkgPath
                     \/ Providers[last.order[a]].FuncName # Providers[last.order[b]].FuncName
        /\ Range(last.order) = ReachableProviders(G, last.extraEdges, last.targets)

\* the position of provider i in the list, 0 if it is not in it
PositionIn(list, i) ==
    IF \E k \in 1..Len(list) : list[k] = i
    THEN CHOOSE k \in 1..Len(list) : list[k] = i /\ \A l \in 1..(k - 1) : list[l] # i
    ELSE 0

\* the type lies on a cycle of parameter edges and extra edges
OnCycle(g, extraEdges, t) ==
    /\ StepFrom(g, extraEdges, t) # {}
    /\ t \in ReachableFrom(g, extraEdges, StepFrom(g, extraEdges, t))

\* the extra edges close a cycle with the parameter edges: a type reachable from the
\* targets lies on a cycle, and on none without the extra edges
ClosesCycle(g, extraEdges, targets) ==
    \E t \in ReachableFrom(g, extraEdges, {resolveType(g, x) : x \in Range(targets)}) :
        OnCycle(g, extraEdges, t) /\ ~OnCycle(g, EmptyMap, t)

\* C27: in a successful TopologicalSortWithExtraEdges result, for every returned
\* provider P, every return type T of P and every E in extraEdges[T] whose resolved
\* type has a provider R other than P, R comes before P; and when the extra edges
\* close a cycle with the parameter edges the call returns the "unexpected cycle"
\* error and no list.
C27_ExtraEdgesOrdered ==
    last.op = "TopologicalSortWithExtraEdges" =>
        /\ last.err = NoError =>
            \A a \in 1..Len(last.order) :
                \A E \in Range(extrasOf(last.extraEdges, typeStrs(Providers[last.order[a]].Returns))) :
                    LET resolved == resolveType(G, E)
                    IN  (Has(ProviderMap, resolved) /\ ProviderMap[resolved] # last.order[a])
                            => /\ PositionIn(last.order, ProviderMap[resolved]) > 0
                               /\ PositionIn(last.order, ProviderMap[resolved]) < a
        /\ ClosesCycle(G, last.extraEdges, last.targets) =>
            /\ HasPrefix(last.err, "unexpected cycle")
            /\ last.order = <<>>

-----------------------------------------------------------------------------
(* Scanner.extractProviders: the selection of constructors in one package. *)

\* most function declarations in the package scanned
MaxDecls == 3

\* strings.Contains for any substring
ContainsSubstring(s, sub) ==
    \E i \in 1..(Len(s) - Len(sub) + 1) : SubSeq(s, i, i + Len(sub) - 1) = sub

\* ast.Ident.IsExported: the name starts with an upper-case letter
IsExported(name) ==
    Len(name) > 0 /\ Ord(Ch(name, 1)) >= Ord("A") /\ Ord(Ch(name, 1)) <= Ord("Z")

\* extractReturns: the result types without a trailing error
extractReturns(results) ==
    IF Len(results) > 0 /\ results[Len(results)] = "error"
    THEN SubSeq(results, 1, Len(results) - 1) ELSE results

\* funcPriority: how well a function name matches the "primary New" convention
funcPriority(pkgName, funcName) ==
    LET suffix == TrimPrefix(funcName, "New")
    IN  IF EqualFold(suffix, pkgName) THEN 0
        ELSE IF suffix = "" THEN 1
        ELSE IF suffix = "Service" THEN 2
        ELSE 3

\* buildProvider: the Provider of a function declaration
buildProvider(pkgPath, fn) ==
    LET segs == Split(pkgPath, "/")
    IN  [FuncName |-> fn.Name,
         PkgPath |-> pkgPath,
         PkgName |-> segs[Len(segs)],
         Params |-> extractParams(fn.Params, GetAnnotationValues(fn.Annotations, "optional")),
         Returns |-> [k \in 1..Len(extractReturns(fn.Results)) |->
                        TypeRef(extractReturns(fn.Results)[k], FALSE)],
         IsInvoke |-> HasAnnotation(fn.Annotations, "invoke"),
         Annotations |-> fn.Annotations,
         Groups |-> <<>>]

\* extractProviders, first loop: the declaration is a constructor the scan considers
considered(fn) ==
    /\ ~fn.Recv
    /\ IsExported(fn.Name) /\ HasPrefix(fn.Name, "New")
    /\ ~HasAnnotation(fn.Annotations, "ignore")
    /\ ~ContainsSubstring(fn.Name, "With") /\ ~ContainsSubstring(fn.Name, "From")
    /\ Len(extractReturns(fn.Results)) > 0

\* the declaration opted in with a bind or invoke annotation
annotated(fn) == HasAnnotation(fn.Annotations, "bind") \/ HasAnnotation(fn.Annotations, "invoke")

\* extractProviders: alwaysInclude, as positions in the declarations
alwaysInclude(decls) ==
    SelectSeq([i \in 1..Len(decls) |-> i], LAMBDA i : considered(decls[i]) /\ annotated(decls[i]))

\* extractProviders: candidates in the order they were met
candidates(decls) ==
    SelectSeq([i \in 1..Len(decls) |-> i], LAMBDA i : considered(decls[i]) /\ ~annotated(decls[i]))

\* sort.Slice by priority, which is not stable: every arrangement of the candidates
\* with priorities in non-decreasing order
sortByPriority(pkgName, decls, cands) ==
    { o \in Orders(Range(cands)) :
        \A a, b \in 1..Len(o) :
            a < b => funcPriority(pkgName, decls[o[a]].Name) <= funcPriority(pkgName, decls[o[b]].Name) }

\* the return type strings of a declaration
returnsOf(fn) == Range(extractReturns(fn.Results))

\* a variant of the selection loop that does not look at providedTypes
RECURSIVE selectAll(_, _, _, _)
selectAll(decls, sorted, providedTypes, chosen) ==
    IF Len(sorted) = 0 THEN chosen
    ELSE selectAll(decls, Tail(sorted), providedTypes \cup returnsOf(decls[Head(sorted)]),
                   Append(chosen, Head(sorted)))

\* extractProviders, last loop: a candidate is included unless one of its return
\* types is already provided
RECURSIVE selectCandidates(_, _, _, _)
selectCandidates(decls, sorted, providedTypes, chosen) ==
    IF Len(sorted) = 0 THEN chosen
    ELSE LET c == Head(sorted)
             overlap == returnsOf(decls[c]) \cap providedTypes # {}
         IN  IF overlap THEN selectCandidates(decls, Tail(sorted), providedTypes, chosen)
             ELSE selectCandidates(decls, Tail(sorted), providedTypes \cup returnsOf(decls[c]),
                                   Append(chosen, c))

\* extractProviders: for every arrangement the sort can leave, the arrangement and
\* the positions of the declarations selected, in the order of the result
extractProviders(pkgPath, decls) ==
    LET segs == Split(pkgPath, "/")
        always == alwaysInclude(decls)
        marked == UNION {returnsOf(decls[i]) : i \in Range(always)}
    IN  { [sorted |-> o, order |-> selectCandidates(decls, o, marked, always)] :
            o \in sortByPriority(segs[Len(segs)], decls, candidates(decls)) }

\* a function declaration of the package
Decl(name, kinds, results) ==
    [Name |-> name, Recv |-> FALSE,
     Annotations |-> [k \in 1..Len(kinds) |->
                        [Kind |-> kinds[k], Value |-> IF kinds[k] = "bind" THEN tI ELSE ""]],
     Params |-> <<>>, Results |-> results]

\* the declarations a package may hold: constructors of every priority, returning
\* one or two types, with and without annotations, and functions the scan skips
DeclShapes ==
    { Decl("NewA", <<>>, <<tA>>), Decl("NewA", <<>>, <<tA, tB, "error">>),
      Decl("New", <<>>, <<tA>>), Decl("New", <<>>, <<tB, "error">>),
      Decl("NewService", <<>>, <<tB>>),
      Decl("NewB", <<>>, <<tB>>), Decl("NewB", <<>>, <<tA>>), Decl("NewB", <<"bind">>, <<tB>>),
      Decl("NewB", <<"invoke">>, <<tA>>), Decl("NewB", <<"ignore">>, <<tB>>),
      Decl("NewC", <<>>, <<tB>>), Decl("NewC", <<>>, <<tA, tB>>), Decl("NewC", <<"bind">>, <<tA>>),
      Decl("NewC", <<>>, <<"error">>),
      Decl("NewFromB", <<"bind">>, <<tB>>), Decl("Start", <<"invoke">>, <<tA>>),
      [Decl("NewC", <<>>, <<tB>>) EXCEPT !.Recv = TRUE] }

\* the packages scanned: up to MaxDecls declarations with different names
DeclLists ==
    { d \in SeqUpTo(DeclShapes, MaxDecls) :
        \A i, j \in 1..Len(d) : i # j => (d[i].Name # d[j].Name \/ d[i].Recv # d[j].Recv) }

\* the packages loaded, before extractProviders: Providers holds the Provider of
\* every declaration, in declaration order
InitScan ==
    /\ pc = "loaded"
    /\ \E decls \in DeclLists :
        /\ Providers = [i \in 1..Len(decls) |-> buildProvider("m/a", decls[i])]
        /\ last = [NoQuery EXCEPT !.op = "load", !.targets = decls]
    /\ cfg = Config(EmptyMap)
    /\ pkgIndex = EmptyMap
    /\ ProviderMap = EmptyMap
    /\ Bindings = EmptyMap
    /\ Groups = EmptyMap
    /\ TypeToField = EmptyMap
    /\ shortToFull = EmptyMap
    /\ pkgNameToPath = EmptyMap
    /\ errs = <<>>

\* providers := s.extractProviders(pkg); last keeps the declarations, the candidates
\* as sorted and the positions of the declarations selected
extractProvidersCall ==
    /\ pc = "loaded"
    /\ \E r \in extractProviders("m/a", last.targets) :
        /\ Providers' = [k \in 1..Len(r.order) |-> buildProvider("m/a", last.targets[r.order[k]])]
        /\ last' = [op |-> "extractProviders", targets |-> last.targets, commands |-> <<>>,
                    order |-> r.order, err |-> NoError, errs |-> <<>>, sorted |-> r.sorted]
    /\ pc' = "extracted"
    /\ UNCHANGED <<ProviderMap, Bindings, Groups, TypeToField, shortToFull, pkgNameToPath,
                   cfg, pkgIndex, errs>>

SpecScan == InitScan /\ [][extractProvidersCall]_vars

\* the priority classes of non-annotated candidates
PriorityClass(pkgName, name) ==
    CASE EqualFold(name, "New" \o pkgName) -> 0
      [] name = "New" -> 1
      [] name = "NewService" -> 2
      [] OTHER -> 3

\* the declarations extractProviders was called on, and the positions it selected
Declared == last.targets
Selected == Range(last.order)

\* the return type strings of the bind- or invoke-annotated constructors
AnnotatedReturns ==
    UNION {returnsOf(Declared[i]) : i \in {j \in 1..Len(Declared) : considered(Declared[j]) /\ annotated(Declared[j])}}

C28_SelectionOrderIndependent ==
    pc = "extracted" =>
        \A d \in {x \in DeclLists : Range(x) = Range(Declared)} :
            \A r \in extractProviders("m/a", d) :
                {d[i].Name : i \in Range(r.order)} = {Declared[i].Name : i \in Selected}

====
